---- MODULE Spec2Model ----
(***************************************************************************)
(* Model of aws-sso-lib-go (package awsssolib): the AWS-CLI compatible     *)
(* token cache (cache.go) and the Login / device-authorization flow        *)
(* (sso.go).                                                               *)
(*                                                                         *)
(* Time.  An instant is an integer number of ticks since an epoch; there   *)
(* are TicksPerSecond ticks in a second, so an instant can carry a         *)
(* sub-second part.  A Go time.Time is modelled as [t, loc]: the instant   *)
(* and the UTC offset (in ticks) of the Location the value carries.        *)
(* A timestamp string is modelled by what it says: its form (a literal     *)
(* trailing "Z", a numeric offset, or something unparsable), the wall      *)
(* clock reading it spells and the offset it spells.                       *)
(***************************************************************************)
EXTENDS Integers, Sequences, FiniteSets, TLC

\* ---------------------------------------------------------------- bounds
TicksPerSecond == 3
MaxMinutes == 12
MaxLatencyMinutes == 4
MaxLogins == 2
MaxCacheOps == 2
MaxOps == 2
MaxStoreOps == 4

\* ------------------------------------------------------------------ time
Second == TicksPerSecond
Minute == 60 * Second
Hour == 60 * Minute
Day == 24 * Hour

\* the instant the model starts at (late enough that every wall clock
\* reading below is positive)
Epoch == 3 * Hour
MaxTime == Epoch + MaxMinutes * Minute

\* UTC offsets a Location can have (west of, at, and east of Greenwich)
Offsets == {0 - Hour, 0, Hour}

UTC == 0

\* time.Time values
Time(t, loc) == [t |-> t, loc |-> loc]

\* time.Time.Add
Add(tm, d) == [t |-> tm.t + d, loc |-> tm.loc]

\* time.Time.After / Before compare instants
After(a, b) == a.t > b.t
Before(a, b) == a.t < b.t

\* ------------------------------------------------- timestamps as strings
EmptyStr == [form |-> "bad", wall |-> 0, off |-> 0]

TruncSecond(w) == w - (w % Second)

\* Time.Format("2006-01-02T15:04:05Z"): the layout's trailing Z is a literal
\* character, and the fields printed are the wall clock reading of the value
\* in its own Location, cut to the second.
FormatZ(tm) == [form |-> "Z", wall |-> TruncSecond(tm.t + tm.loc), off |-> 0]

\* time.Parse("2006-01-02T15:04:05Z", s): accepts exactly the strings that
\* end in the literal Z; with no zone in the layout the reading is taken as
\* UTC.
ParseZOk(s) == s.form = "Z"
ParseZ(s) == Time(s.wall, UTC)

\* time.Parse(time.RFC3339, s): accepts Z or a numeric offset, and applies it
ParseRFC3339Ok(s) == s.form \in {"Z", "offset"}
ParseRFC3339(s) == Time(s.wall - s.off, s.off)

\* -------------------------------------------------------- program values
StartURLs == {"https://a.awsapps.com/start", "https://b.awsapps.com/start"}

tokenExpiryBuffer == 5 * Minute
registrationLifetime == 90 * Day

Token(at, exp, url, cid) ==
    [accessToken |-> at, expiresAt |-> exp, startURL |-> url, clientID |-> cid]

\* results of the cache readers: a token, absent (nil, nil) or an error
Absent == [kind |-> "absent"]
ReadError == [kind |-> "error"]
Found(tok) == [kind |-> "token", token |-> tok]

\* the token cache file of one start URL: no file, bytes that are no JSON
\* object, or a JSON object.  json = "cli" is an object every field of which
\* has the type AWSCLIToken wants; json = "native" is an object that
\* AWSCLIToken rejects (a field it declares as string holds another type) and
\* that Token accepts.
NoFile == [json |-> "none"]
InvalidJSON == [json |-> "invalid"]

\* one file name for every start URL
GetSSOCacheFilePathShared(startURL) == CHOOSE v \in StartURLs : TRUE

\* GetSSOCacheFilePath: the file is named by the SHA-1 of the start URL under
\* the fixed directory, so there is one file per start URL
GetSSOCacheFilePath(startURL) == startURL

\* PutCachedToken: the bytes written for (startURL, token) at instant nowTm
PutCachedTokenData(startURL, token, nowTm) ==
    [json |-> "cli",
     startUrl |-> startURL,
     accessToken |-> token.accessToken,
     expiresAt |-> FormatZ(token.expiresAt),
     receivedAt |-> FormatZ(nowTm),
     clientId |-> token.clientID,
     registrationExpiresAt |->
        IF token.clientID # 0
        THEN FormatZ(Add(nowTm, registrationLifetime))
        ELSE EmptyStr]

\* the native-schema fallback without its expiry check
GetCachedTokenNativeUnchecked(f, nowTm) ==
    IF ~ParseRFC3339Ok(f.expiresAt) THEN ReadError
    ELSE Found(Token(f.accessToken, ParseRFC3339(f.expiresAt), f.startUrl,
                     f.clientId))

\* GetCachedToken, native-schema fallback: plain expiry check, no buffer
GetCachedTokenNative(f, nowTm) ==
    IF ~ParseRFC3339Ok(f.expiresAt) THEN ReadError
    ELSE IF After(nowTm, ParseRFC3339(f.expiresAt)) THEN Absent
    ELSE Found(Token(f.accessToken, ParseRFC3339(f.expiresAt), f.startUrl,
                     f.clientId))

\* GetCachedToken, external-compatible schema: the expiry is parsed with the
\* Z layout, then as RFC3339, and checked with the five minute buffer
GetCachedTokenCLI(f, nowTm) ==
    IF ~ParseZOk(f.expiresAt) /\ ~ParseRFC3339Ok(f.expiresAt) THEN ReadError
    ELSE LET expiresAt == IF ParseZOk(f.expiresAt) THEN ParseZ(f.expiresAt)
                          ELSE ParseRFC3339(f.expiresAt)
         IN  IF After(nowTm, Add(expiresAt, 0 - tokenExpiryBuffer)) THEN Absent
             ELSE Found(Token(f.accessToken, expiresAt, f.startUrl, f.clientId))

\* GetCachedToken on the content of the file of the start URL
GetCachedTokenData(f, nowTm) ==
    IF f.json = "none" THEN Absent
    ELSE IF f.json = "invalid" THEN ReadError
    ELSE IF f.json = "native" THEN GetCachedTokenNative(f, nowTm)
    ELSE GetCachedTokenCLI(f, nowTm)

\* ------------------------------------------------------------------ state
VARIABLES
    now,      \* the wall clock: the current instant
    tz,       \* the UTC offset of the process's Local time zone
    files,    \* the token cache file of each start URL
    pc,       \* where the running Login is
    input,    \* the LoginInput of the running (or last) Login
    ctx,      \* the context the flow runs under: its error and its deadline
    flow,     \* the locals of performDeviceAuthorization
    obs,      \* what the provider and the callback have seen of this Login
    result,   \* what the last Login returned
    logins,   \* Login invocations so far
    minted,   \* per start URL, the token the last successful device flow returned
    lastPut,  \* the PutCachedToken call a caller has just made
    got,      \* the GetCachedToken call a caller has just made
    cacheOps, \* direct calls of the token cache functions so far
    arg,      \* the token the caller of PutCachedToken holds
    stores,   \* the content of the MemoryCache and of the FileCache a caller holds
    op,       \* the library call that has just returned, and what it did
    ops,      \* library calls so far
    modes,    \* the permission bits of the token cache directory and files
    race      \* two Logins that run at the same time, and the file they write

vars == <<now, tz, files, pc, input, ctx, flow, obs, result, logins, minted,
          lastPut, got, cacheOps, arg, stores, op, ops, modes, race>>

loginVars == <<pc, input, ctx, flow, obs, result, logins, minted>>
cacheVars == <<lastPut, got, cacheOps, arg>>
opsVars == <<stores, op, ops>>

\* time.Now(): the current instant, in the Local time zone
Now == Time(now, tz)

\* permission bits: "none" is a directory or a file that does not exist
NoModes == [dir |-> "none", file |-> [u \in StartURLs |-> "none"]]

\* os.MkdirAll(dir, perm) and os.WriteFile(path, data, perm): perm is given to
\* what the call creates; a directory or a file that exists keeps its bits
MkdirAll(mode, perm) == IF mode = "none" THEN perm ELSE mode
WriteFile(mode, perm) == IF mode = "none" THEN perm ELSE mode

\* the permission bits after the library took the token cache files from fs
\* to fs2: PutCachedToken creates with os.MkdirAll(cacheDir, 0700) and
\* os.WriteFile(cachePath, data, 0600), DeleteCachedToken removes the file
PermsAfter(ms, fs, fs2) ==
    [dir |-> IF \E u \in StartURLs : fs2[u] # NoFile
             THEN MkdirAll(ms.dir, "0700") ELSE ms.dir,
     file |-> [u \in StartURLs |->
                 IF fs2[u] = NoFile THEN "none"
                 ELSE WriteFile(ms.file[u], "0600")]]

\* ------------------------------------------------------------------ Login
defaultExpiryWindow == 5 * Minute
authTimeout == 10 * Minute

\* what StartDeviceAuthorization can answer as Interval, what CreateToken can
\* answer as ExpiresIn, and what a caller passes
\* (the clock of a running Login moves in steps of a minute, so the intervals
\* are whole minutes; an Interval of 0 makes time.NewTicker panic)
Intervals == {0, 3 * Minute, 5 * Minute}
Lifetimes == {4 * Minute, 8 * Minute}
ExpiryWindows == {0, 2 * Minute}
DeadlineDeltas == {0, 4 * Minute}
URLInputs == StartURLs \cup {""}

\* SSO regions a caller passes: one that matches regionRegex, the empty string
\* and one that does not match
Regions == {"us-east-1"}
RegionInputs == Regions \cup {"", "us_east_1"}

\* LoginInput.UserAuthHandler (set or nil) and LoginInput.DisableBrowser; a
\* caller that brings its own handler leaves DisableBrowser unset
HandlerInputs ==
    {[userAuthHandler |-> h, disableBrowser |-> d] : h, d \in BOOLEAN}
CallerHandler == [userAuthHandler |-> TRUE, disableBrowser |-> FALSE]

\* errors of the callback: nil, the error of a caller's handler, and the
\* AuthenticationNeededError of NonInteractiveAuthHandler
NoError == [type |-> "nil"]
CustomError == [type |-> "Handler"]

NoResult == [kind |-> "none"]
ErrorResult(kind, where, cause) ==
    [kind |-> kind, op |-> where, cause |-> cause, at |-> now]
TokenResult(tok, cached) ==
    [kind |-> "Token", token |-> tok, cached |-> cached, at |-> now]

NoObs ==
    [reg |-> 0, start |-> 0, cb |-> 0, cbErr |-> FALSE, cbError |-> NoError,
     browser |-> FALSE, polls |-> 0, pending |-> 0, slow |-> 0,
     failed |-> "none", answer |-> "none", gap |-> 0, would |-> 0, delay |-> 0,
     expiresIn |-> 0]

NoFlow ==
    [clientID |-> 0, verificationURI |-> "", userCode |-> 0, interval |-> 0,
     nextTick |-> 0, tick |-> FALSE,
     timeout |-> 0, pollStart |-> 0, callStart |-> 0, sleepEnd |-> 0]

NoInput ==
    [startURL |-> "", ssoRegion |-> "", forceRefresh |-> FALSE,
     expiryWindow |-> 0, userAuthHandler |-> FALSE, disableBrowser |-> FALSE,
     deadline |-> 0, at |-> 0, prior |-> Absent]

NoCtx == [err |-> "none", deadline |-> 0, during |-> "none"]

\* ValidateStartURL, ValidateRegion: the values that pass
\* (a path is not looked at: the start URL with -123456789012 behind it passes)
LongURL == "https://a.awsapps.com/start-123456789012"
ValidateStartURL(startURL) == startURL \in StartURLs \cup {LongURL}
ValidateRegion(region) == region \in Regions

\* ValidateLoginInput
ValidateLoginInput(in) ==
    ValidateStartURL(in.startURL) /\ ValidateRegion(in.ssoRegion)

\* the short cut taken whatever ForceRefresh is
LoginCachedTokenForced(in, f, nowTm) ==
    LET cached == GetCachedTokenData(f, nowTm)
        expiryWindow == IF in.expiryWindow = 0 THEN defaultExpiryWindow
                        ELSE in.expiryWindow
    IN  IF cached.kind = "token"
           /\ Before(Add(nowTm, expiryWindow), cached.token.expiresAt)
        THEN cached
        ELSE Absent

\* Login, the cached-token short cut: the token GetCachedToken returns is
\* used when now + window is before its expiry
LoginCachedToken(in, f, nowTm) ==
    LET cached == GetCachedTokenData(f, nowTm)
        expiryWindow == IF in.expiryWindow = 0 THEN defaultExpiryWindow
                        ELSE in.expiryWindow
    IN  IF ~in.forceRefresh /\ cached.kind = "token"
           /\ Before(Add(nowTm, expiryWindow), cached.token.expiresAt)
        THEN cached
        ELSE Absent

LoginStart(u, r, force, w, dl, h) ==
    /\ pc = "idle"
    /\ logins < MaxLogins
    /\ logins' = logins + 1
    /\ input' = [startURL |-> u, ssoRegion |-> r, forceRefresh |-> force,
                 expiryWindow |-> w, userAuthHandler |-> h.userAuthHandler,
                 disableBrowser |-> h.disableBrowser,
                 deadline |-> IF dl = 0 THEN 0 ELSE now + dl, at |-> now,
                 prior |-> IF u \in StartURLs THEN minted[u] ELSE Absent]
    /\ obs' = NoObs
    /\ flow' = NoFlow
    /\ ctx' = [err |-> "none", deadline |-> input'.deadline, during |-> "none"]
    /\ IF ~ValidateLoginInput(input')
       THEN /\ pc' = "done"
            /\ result' = ErrorResult("InvalidConfiguration", "Login", "none")
       ELSE LET hit == LoginCachedToken(input', files[GetSSOCacheFilePath(u)], Now)
            IN  IF hit.kind = "token"
                THEN /\ pc' = "done"
                     /\ result' = TokenResult(hit.token, TRUE)
                ELSE /\ pc' = "register"
                     /\ result' = NoResult
    /\ UNCHANGED <<now, tz, files, minted, cacheVars, opsVars, modes, race>>

\* the error a provider call made under a finished context returns
CtxCause == IF ctx.err = "canceled" THEN "context.Canceled"
            ELSE "context.DeadlineExceeded"

\* config.LoadDefaultConfig and RegisterClient
RegisterClient(outcome) ==
    /\ pc = "register"
    /\ IF outcome = "config"
       THEN /\ pc' = "done"
            /\ result' = ErrorResult("Wrapped", "LoadDefaultConfig", "config")
            /\ UNCHANGED <<obs, flow>>
       ELSE /\ obs' = [obs EXCEPT !.reg = @ + 1,
                         !.failed = IF ctx.err = "none" /\ outcome = "rejected"
                                    THEN "RegisterClient" ELSE @]
            /\ IF ctx.err # "none"
               THEN /\ pc' = "done"
                    /\ result' = ErrorResult("Wrapped", "RegisterClient", CtxCause)
                    /\ UNCHANGED flow
               ELSE IF outcome = "rejected"
               THEN /\ pc' = "done"
                    /\ result' = ErrorResult("Wrapped", "RegisterClient", "provider")
                    /\ UNCHANGED flow
               ELSE /\ pc' = "startauth"
                    /\ flow' = [flow EXCEPT !.clientID = logins]
                    /\ UNCHANGED result
    /\ UNCHANGED <<now, tz, files, input, ctx, logins, minted, cacheVars,
                 opsVars, modes, race>>

\* the verification URI of a StartDeviceAuthorization response
VerificationURI == "https://device.sso.us-east-1.amazonaws.com/"

StartDeviceAuthorization(outcome, interval) ==
    /\ pc = "startauth"
    /\ obs' = [obs EXCEPT !.start = @ + 1,
                 !.failed = IF ctx.err = "none" /\ outcome = "rejected"
                            THEN "StartDeviceAuthorization" ELSE @]
    /\ IF ctx.err # "none"
       THEN /\ pc' = "done"
            /\ result' = ErrorResult("Wrapped", "StartDeviceAuthorization", CtxCause)
            /\ UNCHANGED flow
       ELSE IF outcome = "rejected"
       THEN /\ pc' = "done"
            /\ result' = ErrorResult("Wrapped", "StartDeviceAuthorization", "provider")
            /\ UNCHANGED flow
       ELSE /\ pc' = "callback"
            /\ flow' = [flow EXCEPT !.interval = interval,
                                    !.verificationURI = VerificationURI,
                                    !.userCode = logins]
            /\ UNCHANGED result
    /\ UNCHANGED <<now, tz, files, input, ctx, logins, minted, cacheVars,
                 opsVars, modes, race>>

\* the timeout of the polling: ten minutes, or the time left to the caller's
\* deadline when that is less
PollTimeout(deadline, t) ==
    IF deadline # 0 /\ deadline - t < authTimeout THEN deadline - t
    ELSE authTimeout

\* the handler the flow calls: the caller's, or NonInteractiveAuthHandler when
\* DisableBrowser is set, or DefaultAuthHandler
AuthHandlerOf(in) ==
    IF in.userAuthHandler THEN "UserAuthHandler"
    ELSE IF in.disableBrowser THEN "NonInteractiveAuthHandler"
    ELSE "DefaultAuthHandler"

\* a non-interactive handler that says nothing of where to authenticate
NonInteractiveBare(params) ==
    [type |-> "AuthenticationNeeded", uri |-> "", code |-> 0]

\* NonInteractiveAuthHandler: an AuthenticationNeededError whose message holds
\* the verification URI and the user code
NonInteractiveAuthHandler(params) ==
    [type |-> "AuthenticationNeeded", uri |-> params.verificationURI,
     code |-> params.userCode]

\* DefaultAuthHandler: tries to open the browser, prints the instructions,
\* returns nil
DefaultAuthHandler(params) == NoError

\* what the handler returns; ok is what a caller's handler answers
AuthHandlerError(handler, params, ok) ==
    CASE handler = "UserAuthHandler" -> IF ok THEN NoError ELSE CustomError
      [] handler = "NonInteractiveAuthHandler" -> NonInteractiveAuthHandler(params)
      [] OTHER -> DefaultAuthHandler(params)

\* a flow that goes on to poll whatever the callback returned
AuthHandlerIgnored(err) == FALSE

\* err = authHandler(...); if err != nil { return nil, err }
AuthHandlerAborts(err) == err # NoError

\* a flow that wraps the error of the callback
AuthHandlerFailureWrapped(err) == ErrorResult("Wrapped", "UserAuthHandler", err)

\* return nil, err: the error of the callback is returned as it is
AuthHandlerFailure(err) == ErrorResult(err.type, "UserAuthHandler", err)

\* the user-facing callback, then time.NewTicker and context.WithTimeout
CallAuthHandler(ok) ==
    LET handler == AuthHandlerOf(input)
        params == [verificationURI |-> flow.verificationURI,
                   userCode |-> flow.userCode]
        err == AuthHandlerError(handler, params, ok)
    IN
    /\ pc = "callback"
    /\ obs' = [obs EXCEPT !.cb = @ + 1, !.cbErr = (err # NoError),
                          !.cbError = err,
                          !.browser = (handler = "DefaultAuthHandler")]
    /\ IF AuthHandlerAborts(err)
       THEN /\ pc' = "done"
            /\ result' = AuthHandlerFailure(err)
            /\ UNCHANGED <<flow, ctx>>
       ELSE IF flow.interval <= 0
       THEN /\ pc' = "panic"
            /\ UNCHANGED <<flow, ctx, result>>
       ELSE /\ pc' = "select"
            /\ flow' = [flow EXCEPT !.nextTick = now + flow.interval,
                                    !.tick = FALSE,
                                    !.timeout = PollTimeout(ctx.deadline, now),
                                    !.pollStart = now]
            /\ ctx' = [ctx EXCEPT !.deadline = now + PollTimeout(ctx.deadline, now)]
            /\ UNCHANGED result
    /\ UNCHANGED <<now, tz, files, input, logins, minted, cacheVars,
                 opsVars, modes, race>>

\* select, case <-authCtx.Done()
SelectDone ==
    /\ pc = "select"
    /\ ctx.err # "none"
    /\ pc' = "done"
    /\ result' = IF ctx.err = "deadline"
                 THEN ErrorResult("TimedOut", "select", "none")
                 ELSE ErrorResult("Cancelled", "select", "context.Canceled")
    /\ UNCHANGED <<now, tz, files, input, ctx, flow, obs, logins, minted,
                 cacheVars, opsVars, modes, race>>

\* select, case <-ticker.C: a CreateToken call starts
SelectTick ==
    /\ pc = "select"
    /\ flow.tick
    /\ pc' = "inflight"
    /\ flow' = [flow EXCEPT !.tick = FALSE, !.callStart = now]
    /\ obs' = [obs EXCEPT !.polls = @ + 1,
                          !.gap = IF obs.polls = 0 THEN 0 ELSE now - flow.callStart,
                          !.delay = IF obs.answer = "slowdown" THEN now - obs.would
                                    ELSE 0,
                          !.would = 0]
    /\ UNCHANGED <<now, tz, files, input, ctx, result, logins, minted,
                 cacheVars, opsVars, modes, race>>

\* what comes with the values the model names a response by: the client
\* secret of a RegisterClient response with client id cid, the refresh token of
\* a CreateToken response with access token at
ClientSecret(cid) == <<"secret", cid>>
RefreshToken(at) == <<"refresh", at>>

\* a token that carries the client of the token cached before this flow
NewTokenPriorClient(life) ==
    LET cid == IF input.prior.kind = "token" THEN input.prior.token.clientID
               ELSE flow.clientID
    IN  [accessToken |-> logins, expiresAt |-> Add(Now, life),
         refreshToken |-> RefreshToken(logins), clientID |-> cid,
         clientSecret |-> ClientSecret(cid), registrationTime |-> Now,
         region |-> input.ssoRegion, startURL |-> input.startURL]

\* the token built from a CreateToken success response: the response of this
\* flow is named by the number of the Login call
NewToken(life) ==
    [accessToken |-> logins, expiresAt |-> Add(Now, life),
     refreshToken |-> RefreshToken(logins), clientID |-> flow.clientID,
     clientSecret |-> ClientSecret(flow.clientID), registrationTime |-> Now,
     region |-> input.ssoRegion, startURL |-> input.startURL]

Answers == {"pending", "pendingString", "slowdown", "rejected", "success"}

\* a polling loop that gives up at the first authorization-pending answer
PollDecisionStrict(outcome) ==
    CASE outcome = "success" -> "token"
      [] outcome = "slowdown" -> "sleep"
      [] OTHER -> "fail"

\* a polling loop that retries after every provider error
PollDecisionRetrying(outcome) ==
    CASE outcome = "success" -> "token"
      [] outcome = "slowdown" -> "sleep"
      [] outcome = "context" -> "fail"
      [] OTHER -> "continue"

\* what the polling loop does with the outcome of a CreateToken call: err == nil
\* is a token; a typed AuthorizationPendingException, or an error whose text
\* holds that name, continues; a SlowDownException sleeps and continues;
\* every other error (the context's too) is wrapped and returned
PollDecision(outcome) ==
    CASE outcome = "success" -> "token"
      [] outcome \in {"pending", "pendingString"} -> "continue"
      [] outcome = "slowdown" -> "sleep"
      [] OTHER -> "fail"

\* a Login that caches what the flow built before it looks at the error
LoginCachesAlways(decision) == decision \in {"token", "fail"}

\* Login calls PutCachedToken only when performDeviceAuthorization returned a
\* token
LoginCaches(decision) == decision = "token"

\* the CreateToken call returns, and the loop (and Login) act on its answer; a
\* call made under a finished context returns the context's error
CreateTokenReturn(answer, life) ==
    LET outcome == IF ctx.err # "none" THEN "context" ELSE answer
        decision == PollDecision(outcome)
    IN
    /\ pc = "inflight"
    /\ obs' = [obs EXCEPT
                 !.answer = outcome,
                 !.pending = IF outcome \in {"pending", "pendingString"}
                             THEN @ + 1 ELSE @,
                 !.slow = IF outcome = "slowdown" THEN @ + 1 ELSE @,
                 !.failed = IF outcome = "rejected" THEN "CreateToken" ELSE @,
                 !.expiresIn = IF outcome = "success" THEN life ELSE @,
                 !.would = IF outcome = "slowdown"
                           THEN (IF flow.tick THEN now ELSE flow.nextTick)
                           ELSE @]
    /\ IF decision = "continue"
       THEN /\ pc' = "select"
            /\ UNCHANGED <<flow, result, files, minted>>
       ELSE IF decision = "sleep"
       THEN /\ pc' = "sleep"
            /\ flow' = [flow EXCEPT !.sleepEnd = now + flow.interval]
            /\ UNCHANGED <<result, files, minted>>
       ELSE IF decision = "fail"
       THEN /\ pc' = "done"
            /\ result' = ErrorResult("Wrapped", "CreateToken",
                            IF outcome = "context" THEN CtxCause ELSE "provider")
            /\ files' = IF LoginCaches(decision)
                        THEN [files EXCEPT ![GetSSOCacheFilePath(input.startURL)] =
                                PutCachedTokenData(input.startURL, NewToken(life),
                                                   Now)]
                        ELSE files
            /\ UNCHANGED <<flow, minted>>
       ELSE /\ pc' = "done"
            /\ result' = TokenResult(NewToken(life), FALSE)
            /\ files' = [files EXCEPT ![GetSSOCacheFilePath(input.startURL)] =
                            PutCachedTokenData(input.startURL, NewToken(life), Now)]
            /\ minted' = [minted EXCEPT ![input.startURL] = Found(NewToken(life))]
            /\ UNCHANGED flow
    /\ modes' = PermsAfter(modes, files, files')
    /\ UNCHANGED <<now, tz, input, ctx, logins, cacheVars, opsVars, race>>

\* time.Sleep(interval) after a slow-down answer returns
SleepReturn ==
    /\ pc = "sleep"
    /\ now >= flow.sleepEnd
    /\ pc' = "select"
    /\ UNCHANGED <<now, tz, files, input, ctx, flow, obs, result, logins, minted,
                   cacheVars, opsVars, modes, race>>

\* Login has returned to its caller
Return ==
    /\ pc = "done"
    /\ pc' = "idle"
    /\ input' = NoInput
    /\ ctx' = NoCtx
    /\ flow' = NoFlow
    /\ obs' = NoObs
    /\ result' = NoResult
    /\ UNCHANGED <<now, tz, files, logins, minted, cacheVars, opsVars,
                 modes, race>>

\* the caller cancels the context of the running Login
Cancel ==
    /\ pc \in {"register", "startauth", "callback", "select", "inflight", "sleep"}
    /\ ctx.err = "none"
    /\ ctx' = [ctx EXCEPT !.err = "canceled", !.during = pc]
    /\ UNCHANGED <<now, tz, files, pc, input, flow, obs, result, logins, minted,
                   cacheVars, opsVars, modes, race>>

\* ------------------------------------------------------------------ clock
Polling == pc \in {"select", "inflight", "sleep"}

\* the ticker after the clock has reached t: a tick that is due is put in the
\* channel (capacity one; ticks that find it full are dropped)
TickerAt(f, t) ==
    IF t >= f.nextTick
    THEN [f EXCEPT !.tick = TRUE,
                   !.nextTick = f.nextTick
                        + f.interval * (((t - f.nextTick) \div f.interval) + 1)]
    ELSE f

\* the context after the clock has reached t
CtxAt(c, t) ==
    IF c.err = "none" /\ c.deadline # 0 /\ t >= c.deadline
    THEN [c EXCEPT !.err = "deadline", !.during = pc]
    ELSE c

\* time may pass while nothing is ready to run
CanWait ==
    \/ pc = "idle" /\ logins > 0
    \/ pc = "select" /\ ~flow.tick /\ ctx.err = "none"
    \/ pc = "inflight" /\ ctx.err = "none"
          /\ now - flow.callStart < MaxLatencyMinutes * Minute
    \/ pc = "sleep" /\ now < flow.sleepEnd

Advance ==
    /\ CanWait
    /\ now + Minute <= MaxTime
    /\ now' = now + Minute
    /\ flow' = IF Polling THEN TickerAt(flow, now') ELSE flow
    /\ ctx' = IF Polling THEN CtxAt(ctx, now') ELSE ctx
    /\ UNCHANGED <<tz, files, pc, input, obs, result, logins, minted,
                 cacheVars, opsVars, modes, race>>

\* ------------------------------------------------------------------- spec
NoCall == [url |-> "", n |-> 0]
NoArg == Token(0, Time(0, UTC), "", 0)

\* ------------------------------------------- the token cache, called directly
\* tokens a caller can hold: the expiry is an instant around the start of the
\* run, carried in the Local zone (time.Now().Add(d)) or in UTC
\* (time.Now().UTC().Add(d))
ExpiryDeltas == {0 - 10 * Minute, 5 * Minute + 2, 10 * Minute}
TokenInputs(local) ==
    {Token(7, Time(Epoch + d, loc), url, cid) :
        d \in ExpiryDeltas, loc \in {local, UTC}, url \in StartURLs,
        cid \in {0, 1}}

\* files another writer (the AWS CLI, an older release) can leave at instant t
ZStamp(t) == [form |-> "Z", wall |-> t, off |-> 0]
OffsetStamp(t) == [form |-> "offset", wall |-> t + Hour, off |-> Hour]
ForeignFile(j, u, e) ==
    [json |-> j, startUrl |-> u, accessToken |-> 9, expiresAt |-> e,
     receivedAt |-> EmptyStr, clientId |-> 0, registrationExpiresAt |-> EmptyStr]
ForeignFiles(u, t) ==
    {InvalidJSON}
    \cup {ForeignFile("cli", u, e) :
            e \in {ZStamp(t + 3 * Minute), ZStamp(t + 10 * Minute),
                   OffsetStamp(t + 3 * Minute), OffsetStamp(t + 10 * Minute),
                   EmptyStr}}
    \cup {ForeignFile("native", u, e) :
            e \in {OffsetStamp(t + 3 * Minute), OffsetStamp(t + 10 * Minute),
                   EmptyStr}}

PutCachedToken(u) ==
    /\ cacheOps < MaxCacheOps
    /\ cacheOps' = cacheOps + 1
    /\ files' = [files EXCEPT ![GetSSOCacheFilePath(u)] =
                    PutCachedTokenData(u, arg, Now)]
    /\ lastPut' = [url |-> u, n |-> cacheOps']
    /\ got' = NoCall
    /\ modes' = PermsAfter(modes, files, files')
    /\ UNCHANGED <<now, tz, arg, loginVars, opsVars, race>>

GetCachedToken(u) ==
    /\ cacheOps < MaxCacheOps
    /\ cacheOps' = cacheOps + 1
    /\ got' = [url |-> u, n |-> cacheOps',
               res |-> GetCachedTokenData(files[GetSSOCacheFilePath(u)], Now)]
    /\ UNCHANGED <<now, tz, files, lastPut, arg, loginVars, opsVars, modes,
                 race>>

DeleteCachedToken(u) ==
    /\ cacheOps < MaxCacheOps
    /\ cacheOps' = cacheOps + 1
    /\ files' = [files EXCEPT ![GetSSOCacheFilePath(u)] = NoFile]
    /\ lastPut' = NoCall
    /\ got' = NoCall
    /\ modes' = PermsAfter(modes, files, files')
    /\ UNCHANGED <<now, tz, arg, loginVars, opsVars, race>>

\* the bits another writer gives the directory and the file it creates: those
\* the library uses, or those of a default umask
ForeignModes == {<<"0700", "0600">>, <<"0755", "0644">>}

\* another writer leaves file f for start URL u, creating what does not exist
\* with bits dm and fm
ForeignWriteAs(u, f, dm, fm) ==
    /\ cacheOps < MaxCacheOps
    /\ cacheOps' = cacheOps + 1
    /\ files' = [files EXCEPT ![u] = f]
    /\ modes' = [dir |-> MkdirAll(modes.dir, dm),
                 file |-> [modes.file EXCEPT ![u] = WriteFile(@, fm)]]
    /\ lastPut' = NoCall
    /\ got' = NoCall
    /\ UNCHANGED <<now, tz, arg, loginVars, opsVars, race>>

ForeignWrite(u, f) ==
    \E m \in ForeignModes : ForeignWriteAs(u, f, m[1], m[2])

\* the clock between two calls: a part of a second, or some minutes
ClockStep == 6 * Minute
ClockTick(d) ==
    /\ d = 1 => now % Second = 0
    /\ now + d <= MaxTime
    /\ now' = now + d
    /\ lastPut' = NoCall
    /\ got' = NoCall
    /\ UNCHANGED <<tz, files, cacheOps, arg, loginVars, opsVars, modes, race>>

\* ------------------------------------------------ credentials and stores
Digits == {"0", "1", "2", "3", "4", "5", "6", "7", "8", "9"}

\* account ids a caller passes, as sequences of characters: twelve digits,
\* the same with dashes, the empty string, five digits, and twelve digits
\* with a letter among them
AccountPlain == <<"1", "2", "3", "4", "5", "6", "7", "8", "9", "0", "1", "2">>
AccountDashed ==
    <<"1", "2", "3", "4", "-", "5", "6", "7", "8", "-", "9", "0", "1", "2">>
AccountShort == <<"1", "2", "3", "4", "5">>
AccountLetter ==
    <<"1", "2", "3", "4", "5", "6", "7", "8", "9", "0", "1", "a", "2">>
AccountInputs ==
    {AccountPlain, AccountDashed, <<>>, AccountShort, AccountLetter}

\* a formatAccountID that removes the dashes only
formatAccountIDDashes(accountID) == SelectSeq(accountID, LAMBDA c : c # "-")

\* formatAccountID: the decimal digits of the input, in order
formatAccountID(accountID) == SelectSeq(accountID, LAMBDA c : c \in Digits)

\* accountIDRegex: exactly twelve digits
accountIDRegex(s) == Len(s) = 12 /\ \A i \in 1..Len(s) : s[i] \in Digits

\* ValidateAccountID: not empty, and twelve digits once formatted
ValidateAccountID(accountID) ==
    accountID # <<>> /\ accountIDRegex(formatAccountID(accountID))

\* role names a caller passes, and ValidateRoleName
RoleNames == {"Admin", "ReadOnly"}
RoleInputs == RoleNames \cup {"", "read only"}
\* (roleNameRegex allows digits and the dash)
LongRole == "987654321098-Admin"
ValidateRoleName(roleName) == roleName \in RoleNames \cup {LongRole}

\* a second account id
AccountOther == <<"9", "8", "7", "6", "5", "4", "3", "2", "1", "0", "9", "8">>

\* a string cut at its dashes; the strings of the model that hold one (a run
\* of twelve digits is written as an account id is)
DashParts(s) ==
    CASE s = "aws-sso-creds" -> <<"aws", "sso", "creds">>
      [] s = "test-key" -> <<"test", "key">>
      [] s = LongRole -> <<AccountOther, "Admin">>
      [] s = LongURL -> <<"https://a.awsapps.com/start", AccountPlain>>
      [] OTHER -> <<s>>

\* generateCredentialCacheKey: "aws-sso-creds-%s-%s-%s".  A key is kept as the
\* sequence of its parts between dashes: two keys are the same string exactly
\* when they have the same parts.
generateCredentialCacheKey(startURL, accountID, roleName) ==
    DashParts("aws-sso-creds") \o DashParts(startURL) \o <<accountID>>
        \o DashParts(roleName)

\* whether the key holds a path separator
KeyHasSlash(key) == \E i \in 1..Len(key) : key[i] \in StartURLs

\* the start URL of the callers of the credential operations, and the keys of
\* their providers
HomeURL == "https://a.awsapps.com/start"
CompositeKeys ==
    {generateCredentialCacheKey(HomeURL, AccountPlain, r) : r \in RoleNames}
DirectKeys == {DashParts("test-key")}
\* providers with a start URL or a role name that holds a dash
LongProviders ==
    {[startURL |-> "https://a.awsapps.com/start", accountID |-> AccountPlain,
      roleName |-> LongRole, credentialCache |-> "memory"],
     [startURL |-> LongURL, accountID |-> AccountOther, roleName |-> "Admin",
      credentialCache |-> "memory"],
     [startURL |-> "https://a.awsapps.com/start", accountID |-> AccountOther,
      roleName |-> "Admin", credentialCache |-> "memory"]}
LongKeys ==
    {generateCredentialCacheKey(p.startURL, p.accountID, p.roleName) :
        p \in LongProviders}
Keys == CompositeKeys \cup DirectKeys \cup LongKeys

\* the Cache a caller passes: nil, a MemoryCache, a FileCache
Caches == {"nil", "memory", "file"}
StoreIds == {"memory", "file"}

\* CachedCredentials
Credentials(id, exp) ==
    [accessKeyID |-> id, secretAccessKey |-> id, sessionToken |-> id,
     expiration |-> exp]

\* time.Time as encoding/json writes it (RFC3339 with nanoseconds and the
\* offset of the value's Location, Z for UTC)
FormatRFC3339Nano(tm) ==
    [form |-> IF tm.loc = UTC THEN "Z" ELSE "offset", wall |-> tm.t + tm.loc,
     off |-> tm.loc]

\* json.Marshal(creds) and json.Unmarshal(data, &creds)
MarshalCredentials(creds) ==
    [json |-> "creds",
     AccessKeyId |-> creds.accessKeyID,
     SecretAccessKey |-> creds.secretAccessKey,
     SessionToken |-> creds.sessionToken,
     Expiration |-> FormatRFC3339Nano(creds.expiration)]
UnmarshalCredentials(data) ==
    [accessKeyID |-> data.AccessKeyId,
     secretAccessKey |-> data.SecretAccessKey,
     sessionToken |-> data.SessionToken,
     expiration |-> ParseRFC3339(data.Expiration)]

\* a store: what each key maps to (NoData: nothing)
NoData == [json |-> "none"]
EmptyStore == [k \in Keys |-> NoData]

\* MemoryCache.Get / Put
MemoryCacheGet(store, key) == store[key]
MemoryCachePut(store, key, data) ==
    [store |-> [store EXCEPT ![key] = data], err |-> FALSE]

\* FileCache.Get / Put: the file is <directory>/<key>.json; Put creates the
\* directory only, so writing a key that holds a path separator fails
FileCacheGet(store, key) == store[key]
FileCachePut(store, key, data) ==
    IF KeyHasSlash(key) THEN [store |-> store, err |-> TRUE]
    ELSE [store |-> [store EXCEPT ![key] = data], err |-> FALSE]

\* MemoryCache.Delete, and a Delete that leaves the key in place
MemoryCacheDeleteKept(store, key) == [store |-> store, err |-> FALSE]
MemoryCacheDelete(store, key) ==
    [store |-> [store EXCEPT ![key] = NoData], err |-> FALSE]

\* FileCache.Delete: os.Remove, a file that does not exist is no error;
\* removed: os.Remove succeeds when the file exists
FileCacheDelete(store, key, removed) ==
    IF removed \/ store[key] = NoData
    THEN [store |-> [store EXCEPT ![key] = NoData], err |-> FALSE]
    ELSE [store |-> store, err |-> TRUE]

\* cache.Get and cache.Put in the credential cache helpers: a nil cache is
\* replaced by NewMemoryCache(), a new empty store, in each call
CacheGet(cache, st, key) ==
    CASE cache = "memory" -> MemoryCacheGet(st["memory"], key)
      [] cache = "file" -> FileCacheGet(st["file"], key)
      [] OTHER -> MemoryCacheGet(EmptyStore, key)
CachePut(cache, st, key, data) ==
    CASE cache = "memory" ->
            [stores |-> [st EXCEPT !["memory"] =
                            MemoryCachePut(st["memory"], key, data).store],
             err |-> FALSE]
      [] cache = "file" ->
            [stores |-> [st EXCEPT !["file"] =
                            FileCachePut(st["file"], key, data).store],
             err |-> FileCachePut(st["file"], key, data).err]
      [] OTHER ->
            [stores |-> st, err |-> MemoryCachePut(EmptyStore, key, data).err]

FoundCreds(creds) == [kind |-> "creds", creds |-> creds]

\* credentials are expired five minutes early
CredentialsExpiredEarly(nowTm, expiration) ==
    After(nowTm, Add(expiration, 0 - tokenExpiryBuffer))

\* time.Now().After(creds.Expiration)
CredentialsExpired(nowTm, expiration) == After(nowTm, expiration)

\* GetCachedCredentials
GetCachedCredentialsData(cache, st, key, nowTm) ==
    LET data == CacheGet(cache, st, key)
    IN  IF data = NoData THEN Absent
        ELSE IF data.json # "creds" THEN ReadError
        ELSE IF CredentialsExpired(nowTm, UnmarshalCredentials(data).expiration)
        THEN Absent
        ELSE FoundCreds(UnmarshalCredentials(data))

\* PutCachedCredentials
PutCachedCredentialsData(cache, st, key, creds) ==
    CachePut(cache, st, key, MarshalCredentials(creds))

\* ------------------------------------------------- the library's operations
\* two callers that call Login for the same start URL at the same time
Callers == {1, 2}

\* byte lengths of the JSON PutCachedToken marshals: they differ with the
\* length of the access token
FileSizes == {1, 2, 3}

\* two Logins at once: nothing has been called.  pc: where each Login is;
\* token: what its device flow returned; size: the bytes it marshals; calls:
\* the provider calls and the callback it made; result: what it returned;
\* disk: the bytes in the token cache file; last: whose write was the last;
\* bytes: for every block of the file, whose write put it there; reader: a
\* GetCachedToken made meanwhile, with the capacity of its buffer and the
\* blocks it has read
NoReader == [pc |-> "idle", cap |-> 0, data |-> <<>>, result |-> NoResult]

\* a goroutine that calls a method of a MemoryCache shared with others: where
\* it is (in the map, returned), the call, whether another goroutine was in
\* the map with it while one of the two wrote, and what it returned; mem
\* holds the goroutines that have made their call
NoGoroutine ==
    [pc |-> "idle", name |-> "none", key |-> <<>>, data |-> NoData,
     raced |-> FALSE, result |-> NoResult]
NoRace ==
    [pc |-> [c \in Callers |-> "idle"],
     token |-> [c \in Callers |-> NoArg],
     size |-> [c \in Callers |-> 0],
     calls |-> [c \in Callers |-> NoObs],
     result |-> [c \in Callers |-> NoResult],
     disk |-> 0,
     last |-> 0,
     bytes |-> <<>>,
     reader |-> NoReader,
     mem |-> <<>>,
     puts |-> {},
     fatal |-> FALSE]

\* the record of a call: what it was given (with the token file, the stores
\* and the clock as they were when it was made), what it returned, and what it
\* did on the way: reads of the token cache and of the credential cache,
\* provider calls, role-credential exchanges, Login invocations, device flows
\* started, callbacks, cache writes that failed
NoOp ==
    [name |-> "none", startURL |-> "", accountID |-> <<>>, cache |-> "nil",
     key |-> <<>>, login |-> FALSE, force |-> FALSE, valid |-> TRUE, at |-> 0,
     file |-> NoFile,
     before |-> [c \in StoreIds |-> EmptyStore],
     result |-> NoResult, tokenReads |-> 0, credReads |-> 0,
     providerCalls |-> 0, exchanges |-> 0, logins |-> 0, flows |-> 0,
     callbacks |-> 0, putErr |-> FALSE, token |-> NoArg,
     data |-> NoData, apiErr |-> FALSE, roleName |-> ""]

\* a call starts: the record with what the call was given
Call(name, cache, key) ==
    [NoOp EXCEPT !.name = name, !.cache = cache, !.key = key, !.at = now,
                 !.before = stores]

\* credentials a caller stores: expired a minute ago, expiring in a second, and
\* a step of the clock from now; the expiration carried in the Local zone or
\* in UTC
CredDeltas == {0 - Minute, Second, ClockStep}
CredInputs(t, local) ==
    {Credentials(5, Time(t + d, loc)) : d \in CredDeltas, loc \in {local, UTC}}

PutCachedCredentials(cache, key, creds) ==
    LET put == PutCachedCredentialsData(cache, stores, key, creds)
    IN
    /\ ops < MaxOps
    /\ ops' = ops + 1
    /\ stores' = put.stores
    /\ op' = [Call("PutCachedCredentials", cache, key) EXCEPT
                 !.result = IF put.err THEN ReadError ELSE FoundCreds(creds),
                 !.putErr = put.err]
    /\ UNCHANGED <<now, tz, files, loginVars, cacheVars, modes, race>>

GetCachedCredentials(cache, key) ==
    /\ ops < MaxOps
    /\ ops' = ops + 1
    /\ op' = [Call("GetCachedCredentials", cache, key) EXCEPT
                 !.result = GetCachedCredentialsData(cache, stores, key, Now),
                 !.credReads = 1]
    /\ UNCHANGED <<now, tz, files, stores, loginVars, cacheVars, modes, race>>

\* ssoCredentialProvider: the fields Retrieve uses
Providers ==
    [startURL : {HomeURL}, accountID : {AccountPlain}, roleName : RoleNames,
     credentialCache : Caches]

\* what GetRoleCredentials can answer as Expiration, from now
CredLifetimes == {Second + 1, 3 * Minute}

\* the hit of the credential cache is not used
RetrieveCacheSkipped(cached) == FALSE

\* Retrieve, the cached credentials are returned when there are some
RetrieveCacheHit(cached) == cached.kind = "creds"

\* Retrieve uses the credential cache when the provider has one
RetrieveCaches(cache) == cache # "nil"

\* Retrieve, the return after the exchange: the credentials, whatever
\* PutCachedCredentials returned
RetrieveReturn(creds, putErr) == FoundCreds(creds)

\* Retrieve
Retrieve(p, outcome, life) ==
    LET key == generateCredentialCacheKey(p.startURL, p.accountID, p.roleName)
        cache == p.credentialCache
        cached == IF RetrieveCaches(cache)
                  THEN GetCachedCredentialsData(cache, stores, key, Now)
                  ELSE Absent
        \* (the model keeps the token cache files of StartURLs; there is none
        \* for another start URL)
        file == IF p.startURL \in StartURLs
                THEN files[GetSSOCacheFilePath(p.startURL)] ELSE NoFile
        token == GetCachedTokenData(file, Now)
        \* time.Unix(creds.Expiration/1000, 0)
        creds == Credentials(ops + 1, Time(TruncSecond(now + life), tz))
        put == IF RetrieveCaches(cache)
               THEN PutCachedCredentialsData(cache, stores, key, creds)
               ELSE [stores |-> stores, err |-> FALSE]
        call == [Call("Retrieve", cache, key) EXCEPT
                    !.startURL = p.startURL, !.file = file,
                    !.accountID = p.accountID, !.roleName = p.roleName,
                    !.credReads = IF RetrieveCaches(cache) THEN 1 ELSE 0]
    IN
    /\ ops < MaxOps
    /\ ops' = ops + 1
    /\ IF RetrieveCacheHit(cached)
       THEN /\ op' = [call EXCEPT !.result = FoundCreds(cached.creds)]
            /\ UNCHANGED stores
       ELSE IF token.kind # "token"
       THEN /\ op' = [call EXCEPT
                        !.result = ErrorResult("AuthenticationNeeded",
                                               "Retrieve", "none"),
                        !.tokenReads = 1]
            /\ UNCHANGED stores
       ELSE IF outcome # "ok"
       THEN /\ op' = [call EXCEPT
                        !.result = ErrorResult("Wrapped", "GetRoleCredentials",
                                               "provider"),
                        !.tokenReads = 1, !.providerCalls = 1,
                        !.exchanges = 1]
            /\ UNCHANGED stores
       ELSE /\ op' = [call EXCEPT
                        !.result = RetrieveReturn(creds, put.err),
                        !.tokenReads = 1, !.providerCalls = 1,
                        !.exchanges = 1, !.putErr = put.err]
            /\ stores' = put.stores
    /\ UNCHANGED <<now, tz, files, loginVars, cacheVars, modes, race>>

\* how a device flow can end: RegisterClient fails, StartDeviceAuthorization
\* fails, the callback fails, the polling fails (a provider error, the
\* timeout, a cancellation), or CreateToken answers with a token
FlowOutcomes == {"register", "startauth", "callback", "poll", "token"}

\* a run of the device flow: how it ends, and when it ends with a token, what
\* CreateToken answers as ExpiresIn and whether PutCachedToken then succeeds
NoRun == [outcome |-> "none", life |-> 0, wrote |-> TRUE]
FlowRuns ==
    {[NoRun EXCEPT !.outcome = o] : o \in FlowOutcomes \ {"token"}}
    \cup {[outcome |-> "token", life |-> l, wrote |-> w] :
            l \in Lifetimes, w \in BOOLEAN}
\* the runs to consider for a call that can reach Login, or cannot
RunsFor(reachesLogin) == IF reachesLogin THEN FlowRuns ELSE {NoRun}

\* the least time a flow that reaches its first poll takes
FlowTime == 6 * Minute

\* a failure to store the token fails Login
LoginReturnStrict(tok, wrote) ==
    IF wrote THEN TokenResult(tok, FALSE)
    ELSE ErrorResult("Wrapped", "PutCachedToken", "cache")

\* Login, the return after the device flow: the token, whatever
\* PutCachedToken returned
LoginReturn(tok, wrote) == TokenResult(tok, FALSE)

\* Login from its call to its return, for a caller that is itself a call of
\* the library: what it returns, the token file and the clock it leaves, and
\* what it did
LoginCall(in, run) ==
    LET none == [result |-> NoResult, file |-> NoFile, took |-> 0,
                 tokenReads |-> 0, providerCalls |-> 0, logins |-> 1,
                 flows |-> 0, callbacks |-> 0, putErr |-> FALSE]
        file == files[GetSSOCacheFilePath(in.startURL)]
        hit == LoginCachedToken(in, file, Now)
        took == IF run.outcome \in {"poll", "token"} THEN FlowTime ELSE 0
        tok == Token(ops + 1, Add(Time(now + took, tz), run.life), in.startURL, 1)
        failed == [none EXCEPT
                     !.file = file,
                     !.took = took,
                     !.tokenReads = IF in.forceRefresh THEN 0 ELSE 1,
                     !.flows = 1,
                     !.providerCalls =
                        CASE run.outcome = "register" -> 1
                          [] run.outcome \in {"startauth", "callback"} -> 2
                          [] OTHER -> 3,
                     !.callbacks =
                        IF run.outcome \in {"register", "startauth"} THEN 0
                        ELSE 1,
                     !.result =
                        IF run.outcome = "callback"
                        THEN AuthHandlerFailure(CustomError)
                        ELSE ErrorResult("Wrapped", "performDeviceAuthorization",
                                         "provider")]
    IN  IF ~ValidateLoginInput(in)
        THEN [none EXCEPT
                !.result = ErrorResult("InvalidConfiguration", "Login", "none"),
                !.file = IF in.startURL \in StartURLs THEN file ELSE NoFile]
        ELSE IF hit.kind = "token"
        THEN [none EXCEPT !.result = TokenResult(hit.token, TRUE),
                          !.file = file, !.tokenReads = 1]
        ELSE IF run.outcome # "token"
        THEN failed
        ELSE [failed EXCEPT
                !.result = LoginReturn(tok, run.wrote),
                !.putErr = ~run.wrote,
                !.file = IF run.wrote
                         THEN PutCachedTokenData(in.startURL, tok,
                                                 Time(now + took, tz))
                         ELSE file]

\* the LoginInput the library builds for its own calls of Login
LibraryLogin(u, r) ==
    [NoInput EXCEPT !.startURL = u, !.ssoRegion = r]

\* Login, called by the caller
LoginOp(u, r, force, run) ==
    LET in == [LibraryLogin(u, r) EXCEPT !.forceRefresh = force,
                                         !.userAuthHandler = TRUE]
        done == LoginCall(in, run)
    IN
    /\ ops < MaxOps
    /\ now + done.took <= MaxTime
    /\ ops' = ops + 1
    /\ now' = now + done.took
    /\ files' = IF u \in StartURLs
                THEN [files EXCEPT ![GetSSOCacheFilePath(u)] = done.file]
                ELSE files
    /\ op' = [Call("Login", "nil", <<>>) EXCEPT
                 !.startURL = u,
                 !.force = force,
                 !.valid = ValidateLoginInput(in),
                 !.file = IF u \in StartURLs
                          THEN files[GetSSOCacheFilePath(u)] ELSE NoFile,
                 !.result = done.result,
                 !.tokenReads = done.tokenReads,
                 !.providerCalls = done.providerCalls,
                 !.logins = done.logins,
                 !.flows = done.flows,
                 !.callbacks = done.callbacks,
                 !.putErr = done.putErr]
    /\ modes' = PermsAfter(modes, files, files')
    /\ UNCHANGED <<tz, stores, loginVars, cacheVars, race>>

\* getTokenForOperation: the cached token, or Login when login is set, or
\* AuthenticationNeededError
getTokenForOperation(u, r, login, run) ==
    LET file == files[GetSSOCacheFilePath(u)]
        token == GetCachedTokenData(file, Now)
        none == [result |-> NoResult, file |-> file, took |-> 0,
                 tokenReads |-> 1, providerCalls |-> 0, logins |-> 0,
                 flows |-> 0, callbacks |-> 0, putErr |-> FALSE]
        done == LoginCall(LibraryLogin(u, r), run)
    IN  IF token.kind = "token"
        THEN [none EXCEPT !.result = TokenResult(token.token, TRUE)]
        ELSE IF login
        THEN [done EXCEPT !.tokenReads = @ + 1]
        ELSE [none EXCEPT !.result = ErrorResult("AuthenticationNeeded",
                                                 "getTokenForOperation", "none")]

ListResult(name) == [kind |-> "List", of |-> name]

\* ListAvailableAccounts
ListAvailableAccounts(u, r, login, run, listed) ==
    LET tokenFor == getTokenForOperation(u, r, login, run)
        call == [Call("ListAvailableAccounts", "nil", <<>>) EXCEPT
                    !.startURL = u, !.login = login,
                    !.file = files[GetSSOCacheFilePath(u)],
                    !.tokenReads = tokenFor.tokenReads,
                    !.providerCalls = tokenFor.providerCalls,
                    !.logins = tokenFor.logins, !.flows = tokenFor.flows,
                    !.callbacks = tokenFor.callbacks, !.putErr = tokenFor.putErr]
    IN
    /\ ops < MaxOps
    /\ now + tokenFor.took <= MaxTime
    /\ ops' = ops + 1
    /\ now' = now + tokenFor.took
    /\ files' = [files EXCEPT ![GetSSOCacheFilePath(u)] = tokenFor.file]
    /\ op' = IF tokenFor.result.kind # "Token"
             THEN [call EXCEPT !.result = tokenFor.result]
             ELSE [call EXCEPT
                     !.providerCalls = @ + 1,
                     !.result = IF listed THEN ListResult("accounts")
                                ELSE ErrorResult("Wrapped", "ListAccounts",
                                                 "provider")]
    /\ modes' = PermsAfter(modes, files, files')
    /\ UNCHANGED <<tz, stores, loginVars, cacheVars, race>>

\* ListAvailableRoles: with no account ids given, the accounts come from
\* ListAvailableAccounts, called without the login flag; an account whose
\* roles cannot be listed is skipped
ListAvailableRoles(u, r, login, given, run, listed) ==
    LET tokenFor == getTokenForOperation(u, r, login, run)
        \* the inner ListAvailableAccounts reads the token cache again
        inner == GetCachedTokenData(tokenFor.file, Time(now + tokenFor.took, tz))
        call == [Call("ListAvailableRoles", "nil", <<>>) EXCEPT
                    !.startURL = u, !.login = login,
                    !.file = files[GetSSOCacheFilePath(u)],
                    !.tokenReads = tokenFor.tokenReads,
                    !.providerCalls = tokenFor.providerCalls,
                    !.logins = tokenFor.logins, !.flows = tokenFor.flows,
                    !.callbacks = tokenFor.callbacks, !.putErr = tokenFor.putErr]
    IN
    /\ ops < MaxOps
    /\ now + tokenFor.took <= MaxTime
    /\ ops' = ops + 1
    /\ now' = now + tokenFor.took
    /\ files' = [files EXCEPT ![GetSSOCacheFilePath(u)] = tokenFor.file]
    /\ op' = IF tokenFor.result.kind # "Token"
             THEN [call EXCEPT !.result = tokenFor.result]
             ELSE IF given
             THEN [call EXCEPT !.providerCalls = @ + 1,
                               !.result = ListResult("roles")]
             ELSE IF inner.kind # "token"
             THEN [call EXCEPT
                     !.tokenReads = @ + 1,
                     !.result = ErrorResult("AuthenticationNeeded",
                                            "getTokenForOperation", "none")]
             ELSE IF ~listed
             THEN [call EXCEPT
                     !.tokenReads = @ + 1, !.providerCalls = @ + 1,
                     !.result = ErrorResult("Wrapped", "ListAccounts",
                                            "provider")]
             ELSE [call EXCEPT
                     !.tokenReads = @ + 1, !.providerCalls = @ + 2,
                     !.result = ListResult("roles")]
    /\ modes' = PermsAfter(modes, files, files')
    /\ UNCHANGED <<tz, stores, loginVars, cacheVars, race>>

\* ValidateGetAWSConfigInput
ValidateGetAWSConfigInput(in) ==
    /\ ValidateStartURL(in.startURL)
    /\ ValidateRegion(in.ssoRegion)
    /\ ValidateAccountID(in.accountID)
    /\ ValidateRoleName(in.roleName)
    /\ ValidateRegion(in.region)

\* GetAWSConfig: validation, Login when asked for, then the provider and the
\* SDK configuration (which calls nothing)
GetAWSConfig(in, run) ==
    LET valid == ValidateGetAWSConfigInput(in)
        done == LoginCall(LibraryLogin(in.startURL, in.ssoRegion), run)
        call == [Call("GetAWSConfig", in.credentialCache, <<>>) EXCEPT
                    !.startURL = in.startURL, !.accountID = in.accountID,
                    !.login = in.login, !.valid = valid]
        provider == [startURL |-> in.startURL,
                     accountID |-> formatAccountID(in.accountID),
                     roleName |-> in.roleName,
                     credentialCache |-> in.credentialCache]
    IN
    /\ ops < MaxOps
    /\ ops' = ops + 1
    /\ IF ~valid
       THEN /\ op' = [call EXCEPT
                        !.result = ErrorResult("InvalidConfiguration",
                                               "GetAWSConfig", "none")]
            /\ UNCHANGED <<now, files>>
       ELSE IF ~in.login
       THEN /\ op' = [call EXCEPT
                        !.result = [kind |-> "Config", provider |-> provider]]
            /\ UNCHANGED <<now, files>>
       ELSE /\ now + done.took <= MaxTime
            /\ now' = now + done.took
            /\ files' = [files EXCEPT ![GetSSOCacheFilePath(in.startURL)] =
                            done.file]
            /\ op' = [call EXCEPT
                        !.file = files[GetSSOCacheFilePath(in.startURL)],
                        !.result =
                            IF done.result.kind = "Token"
                            THEN [kind |-> "Config", provider |-> provider]
                            ELSE ErrorResult("Wrapped", "Login", done.result),
                        !.tokenReads = done.tokenReads,
                        !.providerCalls = done.providerCalls,
                        !.logins = done.logins, !.flows = done.flows,
                        !.callbacks = done.callbacks, !.putErr = done.putErr]
    /\ modes' = PermsAfter(modes, files, files')
    /\ UNCHANGED <<tz, stores, loginVars, cacheVars, race>>

\* a call that returns a nil error and nothing else
NilResult == [kind |-> "nil"]

\* Logout goes on to the provider and to the deletion when GetCachedToken
\* returned a token; otherwise it returns nil at once ("already logged out")
LogoutProceeds(token) == token.kind = "token"

\* a Logout that returns when the provider's Logout call fails
LogoutAfterAPIChecked(apiOk) == IF apiOk THEN "delete" ELSE "return"

\* what Logout does when client.Logout has returned: the error is dropped and
\* the token is deleted
LogoutAfterAPI(apiOk) == "delete"

\* Logout.  The error of the provider's Logout call is ignored; the error of
\* os.Remove, other than the file not existing, is returned.  A Logout is made
\* between two of the counted calls, and not twice in a row.
Logout(u, r, cache, apiOk, removed) ==
    LET file == files[GetSSOCacheFilePath(u)]
        token == GetCachedTokenData(file, Now)
        call == [Call("Logout", cache, <<>>) EXCEPT
                    !.startURL = u, !.file = file, !.tokenReads = 1]
    IN
    /\ ops < MaxOps
    /\ op.name # "Logout"
    /\ IF ~LogoutProceeds(token)
       THEN /\ op' = [call EXCEPT !.result = NilResult]
            /\ UNCHANGED files
       ELSE IF LogoutAfterAPI(apiOk) = "return"
       THEN /\ op' = [call EXCEPT !.result = NilResult, !.providerCalls = 1,
                                  !.apiErr = ~apiOk]
            /\ UNCHANGED files
       ELSE IF removed \/ file = NoFile
       THEN /\ op' = [call EXCEPT !.result = NilResult, !.providerCalls = 1,
                                  !.apiErr = ~apiOk]
            /\ files' = [files EXCEPT ![GetSSOCacheFilePath(u)] = NoFile]
       ELSE /\ op' = [call EXCEPT
                        !.result = ErrorResult("Remove", "DeleteCachedToken",
                                               "file"),
                        !.providerCalls = 1, !.apiErr = ~apiOk]
            /\ UNCHANGED files
    /\ modes' = PermsAfter(modes, files, files')
    /\ UNCHANGED <<now, tz, stores, ops, loginVars, cacheVars, race>>

\* the token cache file of a start URL when the functions are given a Cache
\* that is used: the file of another place
cachePathOfCache(cache, startURL) ==
    IF cache = "nil" THEN GetSSOCacheFilePath(startURL)
    ELSE CHOOSE v \in StartURLs : v # startURL

\* cachePath of GetCachedToken, PutCachedToken and DeleteCachedToken: the
\* functions take a Cache and never use it
cachePath(cache, startURL) == GetSSOCacheFilePath(startURL)

\* tokens a caller of PutCachedToken holds for a start URL
TokensFor(u, local) ==
    {tk \in TokenInputs(local) : tk.startURL = u /\ tk.clientID = 0}

\* PutCachedToken, called with a Cache; wrote: os.MkdirAll and os.WriteFile
\* succeed
PutCachedTokenWith(cache, u, token, wrote) ==
    /\ ops < MaxOps
    /\ ops' = ops + 1
    /\ files' = IF wrote
                THEN [files EXCEPT ![cachePath(cache, u)] =
                         PutCachedTokenData(u, token, Now)]
                ELSE files
    /\ op' = [Call("PutCachedToken", cache, <<>>) EXCEPT
                 !.startURL = u,
                 !.token = token,
                 !.file = files[cachePath(cache, u)],
                 !.putErr = ~wrote,
                 !.result = IF wrote THEN NilResult
                            ELSE ErrorResult("Wrapped", "PutCachedToken", "file")]
    /\ modes' = PermsAfter(modes, files, files')
    /\ UNCHANGED <<now, tz, stores, loginVars, cacheVars, race>>

\* GetCachedToken, called with a Cache
GetCachedTokenWith(cache, u) ==
    /\ ops < MaxOps
    /\ ops' = ops + 1
    /\ op' = [Call("GetCachedToken", cache, <<>>) EXCEPT
                 !.startURL = u,
                 !.file = files[cachePath(cache, u)],
                 !.tokenReads = 1,
                 !.result = GetCachedTokenData(files[cachePath(cache, u)], Now)]
    /\ UNCHANGED <<now, tz, files, stores, loginVars, cacheVars, modes, race>>

\* DeleteCachedToken, called with a Cache; removed: os.Remove succeeds when
\* the file exists
DeleteCachedTokenWith(cache, u, removed) ==
    LET file == files[cachePath(cache, u)]
        gone == removed \/ file = NoFile
    IN
    /\ ops < MaxOps
    /\ ops' = ops + 1
    /\ files' = IF gone THEN [files EXCEPT ![cachePath(cache, u)] = NoFile]
                ELSE files
    /\ op' = [Call("DeleteCachedToken", cache, <<>>) EXCEPT
                 !.startURL = u,
                 !.file = file,
                 !.result = IF gone THEN NilResult
                            ELSE ErrorResult("Remove", "DeleteCachedToken",
                                             "file")]
    /\ modes' = PermsAfter(modes, files, files')
    /\ UNCHANGED <<now, tz, stores, loginVars, cacheVars, race>>

\* bytes a caller of a Cache stores
StoreData == {[json |-> "bytes", n |-> i] : i \in 1..2}

\* what Get returns: the bytes, or nil with a nil error
GetResult(data) ==
    IF data = NoData THEN Absent ELSE [kind |-> "data", data |-> data]

\* Get, Put and Delete of a MemoryCache or a FileCache, called by the caller
Get(cache, key) ==
    /\ ops < MaxStoreOps
    /\ ops' = ops + 1
    /\ op' = [Call("Get", cache, key) EXCEPT
                 !.result = GetResult(CacheGet(cache, stores, key))]
    /\ UNCHANGED <<now, tz, files, stores, loginVars, cacheVars, modes, race>>

Put(cache, key, data) ==
    LET put == CachePut(cache, stores, key, data)
    IN
    /\ ops < MaxStoreOps
    /\ ops' = ops + 1
    /\ stores' = put.stores
    /\ op' = [Call("Put", cache, key) EXCEPT
                 !.data = data,
                 !.putErr = put.err,
                 !.result = IF put.err THEN ErrorResult("PathError", "Put", "file")
                            ELSE NilResult]
    /\ UNCHANGED <<now, tz, files, loginVars, cacheVars, modes, race>>

Delete(cache, key, removed) ==
    LET del == IF cache = "memory" THEN MemoryCacheDelete(stores[cache], key)
               ELSE FileCacheDelete(stores[cache], key, removed)
    IN
    /\ ops < MaxStoreOps
    /\ ops' = ops + 1
    /\ stores' = [stores EXCEPT ![cache] = del.store]
    /\ op' = [Call("Delete", cache, key) EXCEPT
                 !.result = IF del.err
                            THEN ErrorResult("PathError", "Delete", "file")
                            ELSE NilResult]
    /\ UNCHANGED <<now, tz, files, loginVars, cacheVars, modes, race>>

\* Login of caller c up to its cache check: the cached token is returned,
\* or the device flow is entered
ConcurrentLogin(c, r) ==
    LET in == [LibraryLogin(HomeURL, r) EXCEPT !.userAuthHandler = TRUE]
        hit == LoginCachedToken(in, files[GetSSOCacheFilePath(HomeURL)], Now)
    IN
    /\ race.pc[c] = "idle"
    /\ race' = IF hit.kind = "token"
               THEN [race EXCEPT !.pc[c] = "done",
                                 !.result[c] = TokenResult(hit.token, TRUE)]
               ELSE [race EXCEPT !.pc[c] = "flow"]
    /\ UNCHANGED <<now, tz, files, modes, loginVars, cacheVars, opsVars>>

\* performDeviceAuthorization of caller c, with its own registration, device
\* code, callback and polling; the provider rejects it or gives it a token,
\* which PutCachedToken marshals into size bytes
ConcurrentFlow(c, ok, size) ==
    /\ race.pc[c] = "flow"
    /\ race' =
          IF ok
          THEN [race EXCEPT
                  !.pc[c] = "open",
                  !.token[c] = Token(c, Add(Now, 8 * Minute), HomeURL, c),
                  !.size[c] = size,
                  !.calls[c] = [NoObs EXCEPT !.reg = 1, !.start = 1, !.cb = 1,
                                             !.polls = 1, !.answer = "success"]]
          ELSE [race EXCEPT
                  !.pc[c] = "done",
                  !.calls[c] = [NoObs EXCEPT !.reg = 1, !.failed = "register"],
                  !.result[c] = ErrorResult("Wrapped",
                                    "performDeviceAuthorization", "provider")]
    /\ UNCHANGED <<now, tz, files, modes, loginVars, cacheVars, opsVars>>

\* os.WriteFile in PutCachedToken of caller c, first half: the file is opened
\* with O_TRUNC and is empty
WriteFileOpen(c) ==
    /\ race.pc[c] = "open"
    /\ race' = [race EXCEPT !.pc[c] = "write", !.disk = 0, !.bytes = <<>>]
    /\ files' = [files EXCEPT ![GetSSOCacheFilePath(HomeURL)] = InvalidJSON]
    /\ modes' = PermsAfter(modes, files, files')
    /\ UNCHANGED <<now, tz, loginVars, cacheVars, opsVars>>

\* os.WriteFile, second half: the bytes are written from offset 0 and the file
\* closed; bytes of a longer content written meanwhile stay behind them.
\* Login then returns the token of its own flow.
WriteFileWrite(c) ==
    LET path == GetSSOCacheFilePath(HomeURL)
    IN
    /\ race.pc[c] = "write"
    /\ race' = [race EXCEPT
                  !.pc[c] = "done",
                  !.disk = IF race.disk > race.size[c] THEN race.disk
                           ELSE race.size[c],
                  !.last = c,
                  !.bytes = [i \in 1..(IF race.disk > race.size[c]
                                       THEN race.disk ELSE race.size[c]) |->
                                IF i <= race.size[c] THEN c ELSE race.bytes[i]],
                  !.result[c] = LoginReturn(race.token[c], TRUE)]
    /\ files' = [files EXCEPT ![path] =
                    IF race.disk > race.size[c] THEN InvalidJSON
                    ELSE PutCachedTokenData(HomeURL, race.token[c], Now)]
    /\ modes' = PermsAfter(modes, files, files')
    /\ UNCHANGED <<now, tz, loginVars, cacheVars, opsVars>>

\* os.ReadFile in GetCachedToken, Open and Stat: no file is (nil, nil);
\* otherwise the buffer gets the size Stat reports (and one byte, left out
\* here), and at least one block (512 bytes)
ReadFileOpen ==
    /\ race.reader.pc = "idle"
    /\ race' = IF files[GetSSOCacheFilePath(HomeURL)] = NoFile
               THEN [race EXCEPT !.reader.pc = "done", !.reader.result = Absent]
               ELSE [race EXCEPT
                       !.reader.pc = "read",
                       !.reader.cap = IF race.disk = 0 THEN 1 ELSE race.disk]
    /\ UNCHANGED <<now, tz, files, modes, loginVars, cacheVars, opsVars>>

\* a file of one valid JSON object in which the first block is of write a and
\* the last block of write b: the access token is in the first block, the
\* expiry and the client in the last
MixedFile(a, b) ==
    [PutCachedTokenData(HomeURL, race.token[b], Now) EXCEPT
        !.accessToken = race.token[a].accessToken]

\* json.Unmarshal of the bytes read: no bytes, and bytes of writes of
\* different lengths, are no JSON object; blocks of writes of one and the
\* same length as the data are an object
ReadFileData(data) ==
    IF data = <<>> THEN InvalidJSON
    ELSE IF \A i \in 1..Len(data) : race.size[data[i]] = Len(data)
    THEN MixedFile(data[1], data[Len(data)])
    ELSE InvalidJSON

\* os.ReadFile, one Read: the blocks it returns, as many as are in the file
\* behind those read and fit the buffer
ReadFileBlocks(cap, have, there) ==
    IF there - have > cap - have THEN cap - have ELSE there - have

\* os.ReadFile, the loop: a Read at the end of the file ends it and
\* GetCachedToken parses what was read; a Read that fills the buffer makes it
\* grow
ReadFileRead ==
    LET r == race.reader
        have == Len(r.data)
        n == ReadFileBlocks(r.cap, have, race.disk)
        data == r.data \o SubSeq(race.bytes, have + 1, have + n)
    IN
    /\ r.pc = "read"
    /\ race' = IF race.disk <= have
               THEN [race EXCEPT
                       !.reader.pc = "done",
                       !.reader.result =
                           GetCachedTokenData(ReadFileData(r.data), Now)]
               ELSE [race EXCEPT
                       !.reader.data = data,
                       !.reader.cap = IF Len(data) >= r.cap THEN 2 * r.cap
                                      ELSE r.cap]
    /\ UNCHANGED <<now, tz, files, modes, loginVars, cacheVars, opsVars>>

\* ------------------------------------------- one MemoryCache, many goroutines
\* the methods that write the map
MapWrites(name) == name \in {"Put", "Delete"}

\* what a Get that ran while the map was written can return besides a value
\* of the map: a slice that is none of the values stored
TornData == [json |-> "bytes", n |-> 0]

\* goroutine c calls Get, Put or Delete and is in the map: the methods take
\* no lock, so nothing keeps it out while another goroutine is there
MemoryCacheEnter(c, name, key, data) ==
    LET others == {d \in DOMAIN race.mem :
                     /\ race.mem[d].pc = "in"
                     /\ MapWrites(name) \/ MapWrites(race.mem[d].name)}
    IN
    /\ ~race.fatal
    /\ c \notin DOMAIN race.mem
    /\ name = "Put" \/ data = NoData
    /\ race' = [race EXCEPT
                  !.mem = [d \in DOMAIN race.mem \cup {c} |->
                             IF d = c
                             THEN [NoGoroutine EXCEPT
                                     !.pc = "in", !.name = name, !.key = key,
                                     !.data = data, !.raced = (others # {})]
                             ELSE IF d \in others
                             THEN [race.mem[d] EXCEPT !.raced = TRUE]
                             ELSE race.mem[d]],
                  !.puts = IF name = "Put" THEN @ \cup {<<key, data>>} ELSE @]
    /\ UNCHANGED <<now, tz, files, stores, op, ops, modes, loginVars,
                   cacheVars>>

\* the access of goroutine c ends.  Alone in the map it does what the method
\* does.  An access that overlapped a write is a data race: the runtime ends
\* the process with "concurrent map read and map write" (or "concurrent map
\* writes") when it notices, the method does what it does otherwise, and a Get
\* can also return a slice that was never stored
MemoryCacheLeave(c, outcome) ==
    LET g == race.mem[c]
        store == stores["memory"]
    IN
    /\ ~race.fatal
    /\ c \in DOMAIN race.mem
    /\ g.pc = "in"
    /\ outcome \in {"fatal", "torn"} => g.raced
    /\ outcome = "torn" => g.name = "Get"
    /\ IF outcome = "fatal"
       THEN /\ race' = [race EXCEPT !.fatal = TRUE]
            /\ UNCHANGED stores
       ELSE IF outcome = "torn"
       THEN /\ race' = [race EXCEPT
                          !.mem[c].pc = "done",
                          !.mem[c].result = GetResult(TornData)]
            /\ UNCHANGED stores
       ELSE /\ race' = [race EXCEPT
                          !.mem[c].pc = "done",
                          !.mem[c].result =
                              IF g.name = "Get"
                              THEN GetResult(MemoryCacheGet(store, g.key))
                              ELSE NilResult]
            /\ stores' =
                  IF g.name = "Put"
                  THEN [stores EXCEPT
                          !["memory"] = MemoryCachePut(store, g.key, g.data).store]
                  ELSE IF g.name = "Delete"
                  THEN [stores EXCEPT
                          !["memory"] = MemoryCacheDelete(store, g.key).store]
                  ELSE stores
    /\ UNCHANGED <<now, tz, files, op, ops, modes, loginVars, cacheVars>>

\* ------------------------------------------------------------ the file path
\* crypto/sha1 on 32-bit words, each kept as its two 16-bit halves <<hi, lo>>
Half == 65536

RECURSIVE Xor16(_, _)
Xor16(a, b) ==
    IF a = 0 THEN b
    ELSE IF b = 0 THEN a
    ELSE (((a % 2) + (b % 2)) % 2) + 2 * Xor16(a \div 2, b \div 2)

RECURSIVE And16(_, _)
And16(a, b) ==
    IF a = 0 \/ b = 0 THEN 0
    ELSE ((a % 2) * (b % 2)) + 2 * And16(a \div 2, b \div 2)

Not16(a) == Half - 1 - a
Or16(a, b) == a + b - And16(a, b)

Xor32(x, y) == <<Xor16(x[1], y[1]), Xor16(x[2], y[2])>>
And32(x, y) == <<And16(x[1], y[1]), And16(x[2], y[2])>>
Or32(x, y) == <<Or16(x[1], y[1]), Or16(x[2], y[2])>>
Not32(x) == <<Not16(x[1]), Not16(x[2])>>
Add32(x, y) ==
    LET lo == x[2] + y[2]
        hi == x[1] + y[1] + (lo \div Half)
    IN  <<hi % Half, lo % Half>>

RECURSIVE Pow2(_)
Pow2(k) == IF k = 0 THEN 1 ELSE 2 * Pow2(k - 1)

\* bits.RotateLeft32
RotlSmall(x, k) ==
    <<((x[1] * Pow2(k)) % Half) + (x[2] \div Pow2(16 - k)),
      ((x[2] * Pow2(k)) % Half) + (x[1] \div Pow2(16 - k))>>
Rotl(x, k) ==
    IF k < 16 THEN RotlSmall(x, k) ELSE RotlSmall(<<x[2], x[1]>>, k - 16)

\* the one padded block of a message of at most 55 bytes, as 16 words: the
\* bytes, 0x80, zeros, and the length in bits
Byte(m, i) ==
    IF i <= Len(m) THEN m[i] ELSE IF i = Len(m) + 1 THEN 128 ELSE 0
Block(m) ==
    [t \in 1..16 |->
        IF t = 16 THEN <<0, 8 * Len(m)>>
        ELSE <<256 * Byte(m, 4 * t - 3) + Byte(m, 4 * t - 2),
               256 * Byte(m, 4 * t - 1) + Byte(m, 4 * t)>>]

\* the message schedule: n more words after those of w.  (The words are
\* computed half by half, and the comparison of a half with itself makes the
\* evaluator finish it before it goes on.)
RECURSIVE Schedule(_, _)
Schedule(w, n) ==
    LET t == Len(w) + 1
        first == Schedule(w, n \div 2)
    IN  IF n = 0 THEN w
        ELSE IF n = 1
        THEN Append(w, Rotl(Xor32(Xor32(w[t - 3], w[t - 8]),
                                  Xor32(w[t - 14], w[t - 16])), 1))
        ELSE IF first = first THEN Schedule(first, n - (n \div 2))
        ELSE w

\* the round function taken as parity in every round
FParity(t, b, c, d) == Xor32(Xor32(b, c), d)

\* the round function and the round constant
F(t, b, c, d) ==
    IF t <= 20 THEN Or32(And32(b, c), And32(Not32(b), d))
    ELSE IF t <= 40 THEN Xor32(Xor32(b, c), d)
    ELSE IF t <= 60 THEN Or32(Or32(And32(b, c), And32(b, d)), And32(c, d))
    ELSE Xor32(Xor32(b, c), d)
K(t) ==
    IF t <= 20 THEN <<23170, 31129>>
    ELSE IF t <= 40 THEN <<28377, 60321>>
    ELSE IF t <= 60 THEN <<36635, 48348>>
    ELSE <<51810, 49622>>

\* the initial hash value
H0 ==
    <<<<26437, 8961>>, <<61389, 43913>>, <<39098, 56574>>, <<4146, 21622>>,
      <<50130, 57840>>>>

\* n rounds from round t on, half by half
RECURSIVE Rounds(_, _, _, _)
Rounds(h, w, t, n) ==
    LET tmp == Add32(Add32(Add32(Add32(Rotl(h[1], 5), F(t, h[2], h[3], h[4])),
                                 h[5]), K(t)), w[t])
        first == Rounds(h, w, t, n \div 2)
    IN  IF n = 1 THEN <<tmp, h[1], Rotl(h[2], 30), h[3], h[4]>>
        ELSE IF first = first
        THEN Rounds(first, w, t + (n \div 2), n - (n \div 2))
        ELSE h

\* sha1.Sum of a message of one block
sha1Sum(m) ==
    LET r == Rounds(H0, Schedule(Block(m), 64), 1, 80)
    IN  [i \in 1..5 |-> Add32(H0[i], r[i])]

\* fmt.Sprintf("%x", hash): lower-case hexadecimal, two digits a byte
HexDigits ==
    <<"0", "1", "2", "3", "4", "5", "6", "7", "8", "9", "a", "b", "c", "d",
      "e", "f">>
Hex16(n) ==
    <<HexDigits[(n \div 4096) + 1], HexDigits[((n \div 256) % 16) + 1],
      HexDigits[((n \div 16) % 16) + 1], HexDigits[(n % 16) + 1]>>
Hex(hash) ==
    Hex16(hash[1][1]) \o Hex16(hash[1][2]) \o Hex16(hash[2][1])
        \o Hex16(hash[2][2]) \o Hex16(hash[3][1]) \o Hex16(hash[3][2])
        \o Hex16(hash[4][1]) \o Hex16(hash[4][2]) \o Hex16(hash[5][1])
        \o Hex16(hash[5][2])

\* []byte(startURL) for the start URLs whose path is computed
PathURLs ==
    {"https://test.awsapps.com/start",
     "https://a.awsapps.com/start",
     "https://b.awsapps.com/start",
     "https://test.awsapps.com/start/",
     "https://TEST.awsapps.com/start",
     "https://test.awsapps.com/start#/"}
UTF8(s) ==
    CASE s = "https://test.awsapps.com/start" ->
        <<104, 116, 116, 112, 115, 58, 47, 47, 116, 101, 115, 116, 46, 97,
          119, 115, 97, 112, 112, 115, 46, 99, 111, 109, 47, 115, 116, 97,
          114, 116>>
      [] s = "https://a.awsapps.com/start" ->
        <<104, 116, 116, 112, 115, 58, 47, 47, 97, 46, 97, 119, 115, 97, 112,
          112, 115, 46, 99, 111, 109, 47, 115, 116, 97, 114, 116>>
      [] s = "https://b.awsapps.com/start" ->
        <<104, 116, 116, 112, 115, 58, 47, 47, 98, 46, 97, 119, 115, 97, 112,
          112, 115, 46, 99, 111, 109, 47, 115, 116, 97, 114, 116>>
      [] s = "https://test.awsapps.com/start/" ->
        <<104, 116, 116, 112, 115, 58, 47, 47, 116, 101, 115, 116, 46, 97,
          119, 115, 97, 112, 112, 115, 46, 99, 111, 109, 47, 115, 116, 97,
          114, 116, 47>>
      [] s = "https://TEST.awsapps.com/start" ->
        <<104, 116, 116, 112, 115, 58, 47, 47, 84, 69, 83, 84, 46, 97, 119,
          115, 97, 112, 112, 115, 46, 99, 111, 109, 47, 115, 116, 97, 114,
          116>>
      [] s = "https://test.awsapps.com/start#/" ->
        <<104, 116, 116, 112, 115, 58, 47, 47, 116, 101, 115, 116, 46, 97,
          119, 115, 97, 112, 112, 115, 46, 99, 111, 109, 47, 115, 116, 97,
          114, 116, 35, 47>>

\* os.UserHomeDir(), with os.Getenv("HOME") when it fails: the value of HOME,
\* which can be unset
Homes == {"/home/user", "/root", ""}

\* the "%x" of sha1.Sum([]byte(startURL)) in GetSSOCacheFilePath, for every
\* start-URL of the model
cacheKey == [u \in PathURLs |-> Hex(sha1Sum(UTF8(u)))]

\* GetSSOCacheFilePath in full: the elements of the path.  filepath.Join
\* leaves an empty home out, which makes the path a relative one.
SSOCacheFilePath(home, startURL) ==
    (IF home = "" THEN <<>> ELSE <<home>>)
        \o <<".aws", "sso", "cache">>
        \o <<cacheKey[startURL] \o <<".json">>>>

\* GetSSOCacheFilePath, called in a process with a home and by a caller that
\* has configured a Cache
PathOf(home, cache, u) ==
    /\ ops < MaxOps
    /\ ops' = ops + 1
    /\ op' = [Call("GetSSOCacheFilePath", cache, <<>>) EXCEPT
                 !.startURL = u,
                 !.result = [kind |-> "path", home |-> home,
                             path |-> SSOCacheFilePath(home, u)]]
    /\ UNCHANGED <<now, tz, files, stores, modes, race, loginVars, cacheVars>>

\* what a caller passes to GetAWSConfig
ValidConfigInput ==
    [startURL |-> HomeURL, ssoRegion |-> "us-east-1",
     accountID |-> AccountPlain, roleName |-> "Admin", region |-> "us-east-1",
     login |-> FALSE, credentialCache |-> "memory"]
OneFieldVaried ==
    {[ValidConfigInput EXCEPT !.startURL = u] : u \in URLInputs}
    \cup {[ValidConfigInput EXCEPT !.ssoRegion = r] : r \in RegionInputs}
    \cup {[ValidConfigInput EXCEPT !.accountID = a] : a \in AccountInputs}
    \cup {[ValidConfigInput EXCEPT !.roleName = r] : r \in RoleInputs}
    \cup {[ValidConfigInput EXCEPT !.region = r] : r \in RegionInputs}
ConfigInputs ==
    {[in EXCEPT !.login = l] : in \in OneFieldVaried, l \in BOOLEAN}

InitState ==
    /\ now = Epoch
    /\ tz \in Offsets
    /\ files = [u \in StartURLs |-> NoFile]
    /\ pc = "idle"
    /\ input = NoInput
    /\ ctx = NoCtx
    /\ flow = NoFlow
    /\ obs = NoObs
    /\ result = NoResult
    /\ logins = 0
    /\ minted = [u \in StartURLs |-> Absent]
    /\ lastPut = NoCall
    /\ got = NoCall
    /\ cacheOps = 0
    /\ stores = [c \in StoreIds |-> EmptyStore]
    /\ op = NoOp
    /\ ops = 0
    /\ race = NoRace

\* no caller uses the token cache functions directly
Init ==
    /\ InitState
    /\ arg = NoArg
    /\ modes = NoModes

\* a caller holds a token to write; the cache directory does not exist, or
\* was made by another writer
InitCache ==
    /\ InitState
    /\ arg \in TokenInputs(tz)
    /\ modes \in {[NoModes EXCEPT !.dir = dm] : dm \in {"none", "0755"}}

Next ==
    \/ \E u \in URLInputs, r \in RegionInputs, force \in BOOLEAN,
          w \in ExpiryWindows, dl \in DeadlineDeltas :
          LoginStart(u, r, force, w, dl, CallerHandler)
    \/ \E outcome \in {"ok", "rejected", "config"} : RegisterClient(outcome)
    \/ \E outcome \in {"ok", "rejected"}, i \in Intervals :
          StartDeviceAuthorization(outcome, i)
    \/ \E ok \in BOOLEAN : CallAuthHandler(ok)
    \/ SelectDone
    \/ SelectTick
    \/ \E answer \in Answers, life \in Lifetimes : CreateTokenReturn(answer, life)
    \/ SleepReturn
    \/ Return
    \/ Cancel
    \/ Advance

Spec == Init /\ [][Next]_vars

\* one Login, with every configuration of the callback
FirstLogin(u, r, force, w, dl, h) ==
    /\ logins = 0
    /\ LoginStart(u, r, force, w, dl, h)

NextAuth ==
    \/ \E u \in URLInputs, r \in RegionInputs, force \in BOOLEAN,
          w \in ExpiryWindows, dl \in DeadlineDeltas, h \in HandlerInputs :
          FirstLogin(u, r, force, w, dl, h)
    \/ \E outcome \in {"ok", "rejected", "config"} : RegisterClient(outcome)
    \/ \E outcome \in {"ok", "rejected"}, i \in Intervals :
          StartDeviceAuthorization(outcome, i)
    \/ \E ok \in BOOLEAN : CallAuthHandler(ok)
    \/ SelectDone
    \/ SelectTick
    \/ \E answer \in Answers, life \in Lifetimes : CreateTokenReturn(answer, life)
    \/ SleepReturn
    \/ Return
    \/ Cancel
    \/ Advance

SpecAuth == Init /\ [][NextAuth]_vars

NextCache ==
    \/ \E u \in StartURLs : PutCachedToken(u)
    \/ \E u \in StartURLs : GetCachedToken(u)
    \/ \E u \in StartURLs : DeleteCachedToken(u)
    \/ \E u \in StartURLs : \E f \in ForeignFiles(u, now) : ForeignWrite(u, f)
    \/ \E d \in {1, ClockStep} : ClockTick(d)

SpecCache == InitCache /\ [][NextCache]_vars

\* the token cache files another writer leaves at instant t: bytes that are
\* no JSON, a file with no expiry, and files that expire in three and in ten
\* minutes
OpsTokenFiles(t) ==
    {InvalidJSON,
     ForeignFile("cli", HomeURL, EmptyStr),
     ForeignFile("cli", HomeURL, ZStamp(t + 3 * Minute)),
     ForeignFile("cli", HomeURL, ZStamp(t + 10 * Minute)),
     ForeignFile("native", HomeURL, OffsetStamp(t + 3 * Minute))}

\* another writer leaves a token cache file, once, before a call
TokenFileWritten(f) ==
    /\ ops < MaxOps
    /\ cacheOps = 0
    /\ ForeignWriteAs(HomeURL, f, "0700", "0600")

\* time passes before a call
OpsClock ==
    /\ ops < MaxOps
    /\ ClockTick(ClockStep)

\* keys the callers of the credential cache helpers use
OpsKeys ==
    DirectKeys \cup {generateCredentialCacheKey(HomeURL, AccountPlain, "Admin")}

\* the library's operations, each from its call to its return, with the token
\* cache files written by others and the clock in between
NextOps ==
    \/ \E cache \in Caches, key \in OpsKeys : \E creds \in CredInputs(now, tz) :
          PutCachedCredentials(cache, key, creds)
    \/ \E cache \in Caches, key \in OpsKeys : GetCachedCredentials(cache, key)
    \/ \E p \in Providers, outcome \in {"ok", "rejected"}, life \in CredLifetimes :
          Retrieve(p, outcome, life)
    \/ \E u \in {HomeURL, ""}, r \in RegionInputs, force \in BOOLEAN :
          \E run \in RunsFor(u = HomeURL /\ r \in Regions) :
             LoginOp(u, r, force, run)
    \/ \E login \in BOOLEAN, listed \in BOOLEAN : \E run \in RunsFor(login) :
          \E r \in Regions : ListAvailableAccounts(HomeURL, r, login, run, listed)
    \/ \E login \in BOOLEAN, given \in BOOLEAN, listed \in BOOLEAN :
          \E run \in RunsFor(login) : \E r \in Regions :
             ListAvailableRoles(HomeURL, r, login, given, run, listed)
    \/ \E in \in ConfigInputs :
          \E run \in RunsFor(in.login /\ ValidateGetAWSConfigInput(in)) :
             GetAWSConfig(in, run)
    \/ \E f \in OpsTokenFiles(now) : TokenFileWritten(f)
    \/ OpsClock

\* the operations are called in a process whose Local zone is an hour east of
\* UTC; values carried in UTC come in through the callers' inputs
InitOps ==
    /\ Init
    /\ tz = Hour

\* a process whose Local zone is UTC or an hour east of it
InitZones ==
    /\ Init
    /\ tz \in {UTC, Hour}

SpecOps == InitOps /\ [][NextOps]_vars

\* Logout among the calls that use what it removes: the credentials a caller
\* puts in its MemoryCache, Retrieve, the token cache file left by another
\* writer, and the clock
NextLogout ==
    \/ \E r \in Regions, apiOk \in BOOLEAN, removed \in BOOLEAN :
          Logout(HomeURL, r, "nil", apiOk, removed)
    \/ \E key \in CompositeKeys : \E creds \in CredInputs(now, tz) :
          PutCachedCredentials("memory", key, creds)
    \/ \E p \in Providers, outcome \in {"ok", "rejected"}, life \in CredLifetimes :
          Retrieve(p, outcome, life)
    \/ \E f \in OpsTokenFiles(now) : TokenFileWritten(f)
    \/ OpsClock

SpecLogout == InitZones /\ [][NextLogout]_vars

\* the token cache of two start URLs: its three functions called with every
\* kind of Cache, Login and Logout, and the clock
NextTokens ==
    \/ \E cache \in Caches, u \in StartURLs, wrote \in BOOLEAN :
          \E token \in TokensFor(u, tz) : PutCachedTokenWith(cache, u, token, wrote)
    \/ \E cache \in Caches, u \in StartURLs : GetCachedTokenWith(cache, u)
    \/ \E cache \in Caches, u \in StartURLs, removed \in BOOLEAN :
          DeleteCachedTokenWith(cache, u, removed)
    \/ \E u \in StartURLs, r \in Regions, force \in BOOLEAN :
          \E run \in FlowRuns : LoginOp(u, r, force, run)
    \/ \E u \in StartURLs, r \in Regions, apiOk \in BOOLEAN, removed \in BOOLEAN :
          Logout(u, r, "nil", apiOk, removed)
    \/ OpsClock

SpecTokens == InitZones /\ [][NextTokens]_vars

\* a MemoryCache and a FileCache used side by side by a caller, with the
\* library's keys and a key of the caller's own
NextStore ==
    \/ \E cache \in StoreIds, key \in Keys : Get(cache, key)
    \/ \E cache \in StoreIds, key \in Keys, data \in StoreData :
          Put(cache, key, data)
    \/ \E cache \in StoreIds, key \in Keys, removed \in BOOLEAN :
          Delete(cache, key, removed)

SpecStore == InitZones /\ [][NextStore]_vars

\* two callers in Login for the same start URL, their steps interleaved
NextRace ==
    \/ \E c \in Callers, r \in Regions : ConcurrentLogin(c, r)
    \/ \E c \in Callers, ok \in BOOLEAN, size \in FileSizes :
          ConcurrentFlow(c, ok, size)
    \/ \E c \in Callers : WriteFileOpen(c)
    \/ \E c \in Callers : WriteFileWrite(c)
    \/ ReadFileOpen
    \/ ReadFileRead

\* the process runs in UTC, where GetCachedToken reads the expiry that
\* PutCachedToken wrote
InitRace ==
    /\ Init
    /\ tz = UTC

SpecRace == InitRace /\ [][NextRace]_vars

\* GetSSOCacheFilePath called for several start URLs, in processes with
\* different homes, by callers with different Caches
NextPath ==
    \E home \in Homes, cache \in Caches, u \in PathURLs : PathOf(home, cache, u)

SpecPath == InitOps /\ [][NextPath]_vars

\* spellings of an account id: its twelve digits in groups, with a separator
\* between the groups
AccountIds == {AccountPlain, AccountOther}
Separators == {"-", " ", "."}
Groupings == {<<12>>, <<4, 4, 4>>, <<3, 3, 3, 3>>, <<6, 6>>}
RECURSIVE Spell(_, _, _)
Spell(id, sep, groups) ==
    IF Len(groups) = 1 THEN id
    ELSE SubSeq(id, 1, groups[1]) \o <<sep>>
            \o Spell(SubSeq(id, groups[1] + 1, Len(id)), sep, Tail(groups))
Spellings ==
    {Spell(id, sep, g) : id \in AccountIds, sep \in Separators, g \in Groupings}

\* GetAWSConfig without login, for every spelling of the account id and for
\* ids that are no account id
SpellingInputs ==
    {[ValidConfigInput EXCEPT !.accountID = a, !.roleName = r,
                              !.credentialCache = c] :
        a \in Spellings \cup {<<>>, AccountShort, AccountLetter},
        r \in RoleNames, c \in Caches}
NextAccount == \E in \in SpellingInputs : GetAWSConfig(in, NoRun)
SpecAccount == InitOps /\ [][NextAccount]_vars

\* Retrieve of providers that share one MemoryCache, with the token cache
\* file written by a login and the clock in between
NextKeys ==
    \/ \E p \in LongProviders, outcome \in {"ok", "rejected"},
          life \in CredLifetimes : Retrieve(p, outcome, life)
    \/ \E f \in OpsTokenFiles(now) : TokenFileWritten(f)
    \/ OpsClock
SpecKeys == InitOps /\ [][NextKeys]_vars

\* two goroutines (two Retrieve calls of providers that share the credential
\* cache, or two callers of the Cache) use one MemoryCache
NextMemory ==
    \/ \E c \in Callers, name \in {"Get", "Put", "Delete"}, key \in OpsKeys,
          data \in StoreData \cup {NoData} :
          MemoryCacheEnter(c, name, key, data)
    \/ \E c \in Callers, outcome \in {"done", "fatal", "torn"} :
          MemoryCacheLeave(c, outcome)
SpecMemory == InitOps /\ [][NextMemory]_vars

\* ----------------------------------------------------------------- claims
PollingStates == {"select", "inflight", "sleep"}

\* the Login that has just returned ran with ForceRefresh false and the default
\* expiry window, for a start URL whose last device flow returned a token, and
\* started more than five minutes before that token expires
ReuseExpected ==
    /\ pc = "done"
    /\ input.prior.kind = "token"
    /\ ~input.forceRefresh
    /\ input.expiryWindow = 0
    /\ input.at < input.prior.token.expiresAt.t - 5 * Minute

\* C1: after a device flow has returned a token for a start URL, every later
\* Login for it with ForceRefresh false and the default window, made before
\* (expiry - 5 minutes), returns that access token with no provider call and
\* no callback, in every time zone.
C1_CachedLoginReuse ==
    ReuseExpected =>
        /\ result.kind = "Token"
        /\ result.token.accessToken = input.prior.token.accessToken
        /\ obs.reg = 0 /\ obs.start = 0 /\ obs.cb = 0 /\ obs.polls = 0

\* a GetCachedToken made right after a PutCachedToken for the same start URL
ReadAfterWrite ==
    /\ got.n # 0
    /\ lastPut.n # 0
    /\ got.url = lastPut.url
    /\ got.n = lastPut.n + 1

\* C2: a token that expires more than five minutes from now, written by
\* PutCachedToken and read back at once by GetCachedToken, comes back with the
\* same access token, start URL and expiry (to the second, as an instant),
\* whatever Location the written expiry carries.
C2_RoundTrip ==
    (ReadAfterWrite /\ arg.expiresAt.t > now + 5 * Minute) =>
        /\ got.res.kind = "token"
        /\ got.res.token.accessToken = arg.accessToken
        /\ got.res.token.startURL = arg.startURL
        /\ got.res.token.expiresAt.t = TruncSecond(arg.expiresAt.t)

\* the instant the expiry field of a parsable cache file stands for
Parsable(f) == f.json \in {"cli", "native"} /\ f.expiresAt.form # "bad"
FileExpiry(f) == f.expiresAt.wall - f.expiresAt.off

\* C3: GetCachedToken returns a token only when now is not after
\* (expiry - 5 minutes) and absent, with no error, otherwise, on every parse
\* path; a token written with expiry now + 10 minutes reads back, one written
\* with expiry now - 10 minutes reads back absent.
C3_ExpiryBuffer ==
    got.n # 0 =>
        LET f == files[GetSSOCacheFilePath(got.url)]
        IN  /\ got.res.kind = "token" =>
                    Parsable(f) /\ ~(now > FileExpiry(f) - 5 * Minute)
            /\ (Parsable(f) /\ now > FileExpiry(f) - 5 * Minute) =>
                    got.res = Absent
            /\ (ReadAfterWrite /\ arg.expiresAt.t = now + 10 * Minute) =>
                    got.res.kind = "token"
            /\ (ReadAfterWrite /\ arg.expiresAt.t = now - 10 * Minute) =>
                    got.res = Absent

\* C4: with a provider that answers authorization-pending n times and then
\* succeeds, the flow makes exactly n + 1 CreateToken attempts and starts each
\* attempt one interval after the one before it.
C4_PendingPolls ==
    /\ (pc = "done" /\ result.kind = "Token" /\ ~result.cached /\ obs.slow = 0) =>
            obs.polls = obs.pending + 1
    /\ (pc = "inflight" /\ obs.polls >= 2 /\ obs.slow = 0) =>
            obs.gap = flow.interval

\* C5: after a slow-down answer the next attempt starts at least one full
\* interval later than it would have started after authorization-pending.
C5_SlowDownExtraWait ==
    (pc = "inflight" /\ obs.polls >= 2 /\ obs.answer = "slowdown") =>
        obs.delay >= flow.interval

\* C6: when the polling timeout elapses before a success, the flow ends with
\* the TimedOut error, wherever the flow is when the deadline passes.
C6_TimeoutIsTimedOut ==
    (pc = "done" /\ ctx.err = "deadline" /\ ctx.during \in PollingStates) =>
        result.kind = "TimedOut"

\* C7: with a caller deadline D sooner than ten minutes after polling starts
\* and a provider that only answers authorization-pending and slow-down, the
\* flow returns TimedOut or Cancelled, no later than D.
C7_CallerDeadline ==
    (/\ pc = "done"
     /\ flow.pollStart # 0
     /\ input.deadline # 0
     /\ input.deadline < flow.pollStart + authTimeout
     /\ result.kind # "Token"
     /\ obs.failed = "none") =>
        /\ result.kind \in {"TimedOut", "Cancelled"}
        /\ result.at <= input.deadline

\* C8: when the caller cancels during Polling, the flow returns the
\* cancellation error, wherever the flow is when the cancellation arrives.
C8_CancelIsCancelled ==
    (pc = "done" /\ ctx.err = "canceled" /\ ctx.during \in PollingStates) =>
        result.kind = "Cancelled"

\* the steps of one Login are in order, and a failed step is the last one
StepsInOrder ==
    /\ obs.reg <= 1 /\ obs.start <= 1 /\ obs.cb <= 1
    /\ obs.start > 0 => (obs.reg = 1 /\ flow.clientID # 0)
    /\ obs.cb > 0 => obs.start = 1
    /\ obs.polls > 0 => (obs.cb = 1 /\ ~obs.cbErr /\ flow.pollStart # 0)
    /\ (result.kind \notin {"none", "Token"} /\ result.op = "RegisterClient") =>
            (obs.start = 0 /\ obs.cb = 0 /\ obs.polls = 0)
    /\ (result.kind \notin {"none", "Token"}
            /\ result.op = "StartDeviceAuthorization") =>
            (obs.cb = 0 /\ obs.polls = 0)
    /\ (result.kind \notin {"none", "Token"} /\ result.op = "UserAuthHandler") =>
            obs.polls = 0

\* a provider call or the callback is made only from the step before it, and
\* only while Login has no outcome yet
CallsBeforeOutcome ==
    /\ obs'.reg > obs.reg => (pc = "register" /\ result = NoResult)
    /\ obs'.start > obs.start => (pc = "startauth" /\ result = NoResult)
    /\ obs'.cb > obs.cb => (pc = "callback" /\ result = NoResult)
    /\ obs'.polls > obs.polls => (pc = "select" /\ result = NoResult)
    /\ pc = "done" => pc' \in {"done", "idle"}

\* C9: within one Login, RegisterClient completes before
\* StartDeviceAuthorization, that before the callback, that before the first
\* CreateToken; a failed step is followed by no other step, and no CreateToken
\* call is made after the outcome.
C9_StepOrder == [](StepsInOrder) /\ [][CallsBeforeOutcome]_vars

C9_Witness ==
    pc = "done" /\ result.kind = "Token" /\ ~result.cached /\ obs.polls >= 2

ProviderCalls(o) == o.reg + o.start + o.polls

\* C10: a provider error other than authorization-pending and slow-down, from
\* RegisterClient, StartDeviceAuthorization or CreateToken, ends the flow with
\* no further provider call, and Login returns an error that wraps it.
C10_ProviderErrorIsFinal ==
    /\ [](obs.failed # "none" =>
            /\ pc = "done"
            /\ result.kind = "Wrapped"
            /\ result.op = obs.failed
            /\ result.cause = "provider")
    /\ [][obs.failed # "none" => ProviderCalls(obs') <= ProviderCalls(obs)]_vars

C10_Witness ==
    pc = "done" /\ obs.failed = "CreateToken" /\ obs.polls >= 2
        /\ result.kind = "Wrapped"

\* the answers that only mean "not yet"
Transient == {"pending", "pendingString", "slowdown"}

\* what a Login that has left Polling has returned: a token, the time-out or
\* cancellation error, or the wrapped error of a CreateToken call that the
\* provider rejected or that the finished context ended
LeftPolling ==
    /\ pc = "done"
    /\ \/ result.kind \in {"Token", "TimedOut", "Cancelled"}
       \/ /\ result.kind = "Wrapped"
          /\ result.op = "CreateToken"
          /\ obs.answer \in {"rejected", "context"}
          /\ result.cause \in {"provider", "context.Canceled",
                               "context.DeadlineExceeded"}

\* C11: an authorization-pending or slow-down answer never ends the device
\* flow and is never the error Login returns: when the last answer is one of
\* them the flow is polling, or has ended by time-out or cancellation at the
\* select; Polling is left only by success, another provider error, time-out
\* or cancellation.
C11_TransientNeverSurfaces ==
    /\ [](obs.answer \in Transient =>
            \/ pc \in PollingStates
            \/ pc = "done" /\ result.kind \in {"TimedOut", "Cancelled"}
                           /\ result.op = "select")
    /\ [][(pc \in PollingStates /\ pc' \notin PollingStates) => LeftPolling']_vars

C11_Witness ==
    pc = "done" /\ result.kind = "Token" /\ ~result.cached
        /\ obs.pending >= 1 /\ obs.slow >= 1

\* C12: when the callback returns an error, Login returns that same error
\* and no CreateToken call is made.
C12_CallbackErrorPropagates ==
    (obs.cb > 0 /\ obs.cbError # NoError) =>
        /\ pc = "done"
        /\ result.kind = obs.cbError.type
        /\ result.cause = obs.cbError
        /\ obs.polls = 0

C12_Witness ==
    pc = "done" /\ obs.cb = 1 /\ obs.cbError = CustomError
        /\ result.kind = "Handler"

\* C13: with DisableBrowser set and no handler of the caller, a Login that
\* reaches the callback fails there with an AuthenticationNeeded error whose
\* message holds the verification URI and the user code of the device-code
\* response, opens no browser and makes no CreateToken call.
C13_NonInteractiveFails ==
    (obs.cb > 0 /\ ~input.userAuthHandler /\ input.disableBrowser) =>
        /\ pc = "done"
        /\ obs.start = 1
        /\ result.kind = "AuthenticationNeeded"
        /\ result.cause.uri = VerificationURI
        /\ result.cause.code = flow.userCode
        /\ flow.userCode # 0
        /\ ~obs.browser
        /\ obs.polls = 0

C13_Witness ==
    pc = "done" /\ obs.cb = 1 /\ ~input.userAuthHandler /\ input.disableBrowser
        /\ result.kind = "AuthenticationNeeded"

\* ------------------------------------------------ credentials and listings
\* the credentials the store of the cache holds under the key, when the
\* instant t is not after their expiration
HeldCredentials(cache, st, key, t) ==
    IF cache = "nil" THEN Absent
    ELSE LET data == st[cache][key]
         IN  IF data.json = "creds"
                /\ t <= data.Expiration.wall - data.Expiration.off
             THEN FoundCreds(
                    [accessKeyID |-> data.AccessKeyId,
                     secretAccessKey |-> data.SecretAccessKey,
                     sessionToken |-> data.SessionToken,
                     expiration |-> Time(data.Expiration.wall - data.Expiration.off,
                                         data.Expiration.off)])
             ELSE Absent

\* what the credential cache of the call held under its key when it was made
Held(o) == HeldCredentials(o.cache, o.before, o.key, o.at)

\* the call made nothing but what it was asked about: no token cache read, no
\* provider call, no Login, no device flow, no callback
NoTokenRead(o) == o.tokenReads = 0
NoProviderCall(o) ==
    o.providerCalls = 0 /\ o.exchanges = 0 /\ o.flows = 0 /\ o.callbacks = 0

\* C14: a Retrieve whose credential cache held, when it was called, unexpired
\* credentials under the composite key of the provider returned exactly those
\* credentials, without reading the token cache and without a provider call,
\* whatever the token cache file was.
C14_CacheHitReturnsCached ==
    (op.name = "Retrieve" /\ Held(op).kind = "creds") =>
        /\ op.result = Held(op)
        /\ NoTokenRead(op)
        /\ NoProviderCall(op)

\* a Retrieve served from the credential cache while the token cache had no
\* usable token
C14_Witness ==
    /\ op.name = "Retrieve"
    /\ Held(op).kind = "creds"
    /\ op.result = Held(op)
    /\ GetCachedTokenData(op.file, Time(op.at, tz)).kind # "token"

\* no valid cached token: the file is missing, is no JSON, has no expiry that
\* parses, or names an expiry the instant t is after
NoValidToken(f, t) == ~Parsable(f) \/ t > FileExpiry(f)

AuthenticationNeeded(o) ==
    /\ o.result.kind = "AuthenticationNeeded"
    /\ o.logins = 0
    /\ NoProviderCall(o)

Exchanged(o) ==
    /\ o.name = "Retrieve"
    /\ o.cache # "nil"
    /\ o.result.kind = "creds"
    /\ Held(o).kind # "creds"

\* the step is a Retrieve by the provider of the Retrieve that has just
\* returned, at the same instant
RetrieveAgain ==
    /\ op.name = "Retrieve"
    /\ op'.name = "Retrieve"
    /\ ops' = ops + 1
    /\ op'.cache = op.cache
    /\ op'.key = op.key
    /\ now = op.at

\* C16: a Retrieve that misses the credential cache of the caller and succeeds
\* makes one exchange call and leaves the credentials under the composite key,
\* and the Retrieve that follows at once returns the same credentials without
\* an exchange call.
C16_ExchangeOnceThenCached ==
    /\ [](Exchanged(op) =>
            /\ op.exchanges = 1
            /\ HeldCredentials(op.cache, stores, op.key, op.at) = op.result)
    /\ [][(Exchanged(op) /\ RetrieveAgain) =>
            (op'.result = op.result /\ op'.exchanges = 0)]_vars

\* the step is GetCachedCredentials(nil, key) right after a
\* PutCachedCredentials(nil, key, creds) that returned no error, the
\* credentials not yet expired
GetAfterPut(cache) ==
    /\ op.name = "PutCachedCredentials"
    /\ op.cache = cache
    /\ ~op.putErr
    /\ op'.name = "GetCachedCredentials"
    /\ ops' = ops + 1
    /\ op'.cache = cache
    /\ op'.key = op.key
    /\ now' <= op.result.creds.expiration.t

\* C17: with no credential store given, PutCachedCredentials(nil, key, creds)
\* followed by GetCachedCredentials(nil, key) returns creds; and the second
\* Retrieve of a provider built without a CredentialCache returns the
\* credentials of the first without an exchange call.
C17_DefaultMemoryStore ==
    /\ [][GetAfterPut("nil") => op'.result = op.result]_vars
    /\ [][(RetrieveAgain /\ op.cache = "nil" /\ op.result.kind = "creds") =>
            (op'.result = op.result /\ op'.exchanges = 0)]_vars

\* what the store of the cache of the call held under its key, expired or not
StoredData(o) == o.before[o.cache][o.key]
StoredExpiry(o) == StoredData(o).Expiration.wall - StoredData(o).Expiration.off

\* C18: GetCachedCredentials returns the stored credentials, as they were put,
\* whenever now is not after their expiration, and absent once it is; it
\* leaves the store as it was.
C18_ExpiryWithoutBuffer ==
    /\ []((op.name = "GetCachedCredentials" /\ op.cache # "nil"
              /\ StoredData(op).json = "creds") =>
            IF op.at <= StoredExpiry(op)
            THEN op.result = Held(op)
            ELSE op.result = Absent)
    /\ [][(\E c \in StoreIds : GetAfterPut(c)) => op'.result = op.result]_vars
    /\ [][(op'.name = "GetCachedCredentials" /\ ops' = ops + 1) =>
            stores' = stores]_vars

\* credentials that expire a second from now are returned
C18_Witness ==
    /\ op.name = "GetCachedCredentials"
    /\ op.result.kind = "creds"
    /\ op.result.creds.expiration.t = op.at + Second

\* C19: a Login whose device flow succeeded returns the new token although
\* the token cache could not be written, and a Retrieve whose exchange
\* succeeded returns the new credentials although the credential cache could
\* not be written.
C19_WriteFailureIgnored ==
    /\ (op.name = "Login" /\ op.putErr) =>
            (op.result.kind = "Token" /\ ~op.result.cached /\ op.flows = 1)
    /\ (op.name = "Retrieve" /\ op.putErr) =>
            (op.result.kind = "creds" /\ op.exchanges = 1)

\* a Login that returned its token and left the token cache file as it was
C19_Witness ==
    /\ op.name = "Login"
    /\ op.putErr
    /\ op.result.kind = "Token"
    /\ files[GetSSOCacheFilePath(op.startURL)] = op.file

\* an account id is well formed when it is twelve digits once its separators
\* (dashes and spaces) are taken out
WellFormedAccountID(a) ==
    accountIDRegex(SelectSeq(a, LAMBDA c : c \notin {"-", " "}))

\* the call was refused for its input before it did anything
RefusedAsInvalid(o) ==
    /\ o.result.kind = "InvalidConfiguration"
    /\ NoTokenRead(o)
    /\ o.credReads = 0
    /\ NoProviderCall(o)

\* C20: Login and GetAWSConfig called with an empty or malformed start URL or
\* SSO region (GetAWSConfig: account id, role name or region too) return
\* InvalidConfiguration before any cache read, provider call or callback.
C20_InvalidInputRefused ==
    /\ (op.name = "Login" /\ ~op.valid) => RefusedAsInvalid(op)
    /\ (op.name = "GetAWSConfig"
            /\ (~op.valid \/ ~WellFormedAccountID(op.accountID)))
        => RefusedAsInvalid(op)

\* ------------------------------------------------------ the login short cut
\* the Login that is running (or has just returned) was called with valid
\* input and ForceRefresh false, and has either returned the cached token or
\* is about to call RegisterClient; the token cache file is as it was at the
\* call
AfterShortCut ==
    /\ ValidateLoginInput(input)
    /\ ~input.forceRefresh
    /\ \/ pc = "register"
       \/ pc = "done" /\ result.kind = "Token" /\ result.cached

\* the window of the Login: ExpiryWindow, five minutes when it is zero
Window(in) == IF in.expiryWindow = 0 THEN 5 * Minute ELSE in.expiryWindow

\* the token cache file of the Login's start URL holds a token, and the call
\* was made more than the window before the expiry the file names
CachedTokenOutlasts(f, in) ==
    Parsable(f) /\ in.at + Window(in) < FileExpiry(f)

\* C21: with ForceRefresh false, Login returns the cached token, with no
\* provider call, exactly when the token cache file holds a token and now + W
\* is before its expiry, W being the ExpiryWindow of the caller (five minutes
\* when zero), also when W is shorter than five minutes.
C21_ExpiryWindow ==
    AfterShortCut =>
        LET f == files[GetSSOCacheFilePath(input.startURL)]
        IN  IF CachedTokenOutlasts(f, input)
            THEN /\ pc = "done"
                 /\ result.token.accessToken = f.accessToken
                 /\ obs.reg = 0 /\ obs.start = 0 /\ obs.polls = 0
            ELSE pc = "register"

\* ------------------------------------------------------------ ForceRefresh
\* the token cache file of the Login that has just returned holds the token
\* it returned
FileHoldsReturned(fs, o) ==
    LET f == fs[GetSSOCacheFilePath(o.startURL)]
    IN  /\ f.json = "cli"
        /\ f.accessToken = o.result.token.accessToken
        /\ f.startUrl = o.startURL

ForcedLogin(o) == o.name = "Login" /\ o.valid /\ o.force

\* a call of the library returns in this step
Returns == ops' = ops + 1

\* the forced Login ran the device flow and did not return the cached token
RanFlow(o) ==
    /\ o.flows = 1
    /\ o.tokenReads = 0
    /\ o.result.kind = "Token" => ~o.result.cached

LogoutReturnsNil == op' # op /\ op'.name = "Logout" /\ op'.result = NilResult

\* C23: when Logout(startURL) has returned nil there is no token cache file
\* for the start URL, whatever the file held: a valid token, an expired one,
\* one within five minutes of its expiry, or content that cannot be parsed.
C23_LogoutRemovesFile ==
    [][LogoutReturnsNil =>
         files'[GetSSOCacheFilePath(op'.startURL)] = NoFile]_vars

\* the step is a Retrieve for the start URL of the Logout that returned nil
\* just before it
RetrieveAfterLogout ==
    /\ op.name = "Logout"
    /\ op.result = NilResult
    /\ Returns
    /\ op'.name = "Retrieve"
    /\ op'.startURL = op.startURL

\* C24: a Retrieve made for a start URL after its Logout returned nil does
\* not return role credentials that were in the credential cache before the
\* Logout.
C24_LogoutRemovesCredentials ==
    [][RetrieveAfterLogout =>
         ~(/\ op'.result.kind = "creds"
           /\ op'.result = HeldCredentials(op'.cache, op.before, op'.key,
                                           op.at))]_vars

\* --------------------------------------------------------- the token cache
TokenFunctions == {"GetCachedToken", "PutCachedToken", "DeleteCachedToken"}

\* what a call of a token cache function for start URL u must return and
\* leave in the token cache files, told from the files, the clock and the
\* token alone
TokenCallOutcome(o, fs, fs2, t) ==
    LET path == GetSSOCacheFilePath(o.startURL)
    IN  /\ \A v \in StartURLs : v # path => fs2[v] = fs[v]
        /\ o.file = fs[path]
        /\ CASE o.name = "GetCachedToken" ->
                  /\ fs2 = fs
                  /\ o.result = GetCachedTokenData(fs[path], t)
             [] o.name = "PutCachedToken" ->
                  IF o.result = NilResult
                  THEN fs2[path] = PutCachedTokenData(o.startURL, o.token, t)
                  ELSE fs2 = fs
             [] o.name = "DeleteCachedToken" ->
                  IF o.result = NilResult THEN fs2[path] = NoFile ELSE fs2 = fs

\* C26: GetCachedToken, PutCachedToken and DeleteCachedToken make no use of
\* the Cache they are given: what they return and the file they touch are
\* those of the start URL's token cache file for every Cache argument, and
\* the store of the Cache is left as it was.
C26_CacheArgumentUnused ==
    [][(Returns /\ op'.name \in TokenFunctions) =>
         /\ stores' = stores
         /\ TokenCallOutcome(op', files, files', Now)]_vars

\* a token written with a MemoryCache as argument was read back with a
\* FileCache as argument
C26_Witness ==
    /\ op.name = "GetCachedToken"
    /\ op.cache = "file"
    /\ op.result.kind = "token"
    /\ op.file.json = "cli"
    /\ op.file.accessToken = 7

\* a step in which a call that writes the token cache returns
TokenWriters == {"PutCachedToken", "DeleteCachedToken", "Login", "Logout"}
TokenWriterReturns ==
    /\ op'.name \in TokenWriters
    /\ Returns \/ (op'.name = "Logout" /\ op' # op)

\* C27: the token cache is kept per start URL: PutCachedToken,
\* DeleteCachedToken, Login and Logout for one start URL leave what
\* GetCachedToken returns for every other start URL as it was.
C27_PerStartURL ==
    [][TokenWriterReturns =>
         \A v \in StartURLs \ {op'.startURL} :
            /\ files'[GetSSOCacheFilePath(v)] = files[GetSSOCacheFilePath(v)]
            /\ GetCachedTokenData(files'[GetSSOCacheFilePath(v)], Now')
                 = GetCachedTokenData(files[GetSSOCacheFilePath(v)], Now')]_vars

\* a Login for one start URL has written its token while the other start URL
\* has a token GetCachedToken returns
C27_Witness ==
    /\ op.name = "Login"
    /\ op.result.kind = "Token"
    /\ ~op.result.cached
    /\ ~op.putErr
    /\ \E v \in StartURLs \ {op.startURL} :
          GetCachedTokenData(files[GetSSOCacheFilePath(v)], Now).kind = "token"

\* ----------------------------------------------------------- the Cache stores
StoreFunctions == {"Get", "Put", "Delete"}

\* every key of every store but key k of store c is as it was
OthersUnchanged(c, k) ==
    \A d \in StoreIds, j \in Keys :
       (d # c \/ j # k) => stores'[d][j] = stores[d][j]

GetAfterPutOf(cache) ==
    /\ op.name = "Put"
    /\ op.cache = cache
    /\ Returns
    /\ op'.name = "Get"
    /\ op'.cache = cache
    /\ op'.key = op.key

\* C29: FileCache behaves as MemoryCache does for every key: a Get that
\* follows a Put of the same key returns the bytes put, also for the keys of
\* generateCredentialCacheKey, which hold the start URL with its ':' and '/'.
C29_FileCacheAnyKey ==
    [][\A cache \in StoreIds :
          GetAfterPutOf(cache) =>
             op'.result = [kind |-> "data", data |-> op.data]]_vars

\* ------------------------------------------------------------- permissions
\* C30: when PutCachedToken has returned with no error, the token file it
\* wrote has the bits 0600 and the cache directory the bits 0700, also when
\* the file or the directory was there before the call with other bits.
C30_OwnerOnly ==
    lastPut # NoCall =>
       /\ modes.file[GetSSOCacheFilePath(lastPut.url)] = "0600"
       /\ modes.dir = "0700"

\* ------------------------------------------------------- concurrent Logins
\* caller c ran a device flow of its own and Login returned its token
OwnFlow(c) ==
    /\ race.pc[c] = "done"
    /\ race.result[c].kind = "Token"
    /\ ~race.result[c].cached
    /\ race.calls[c].reg = 1 /\ race.calls[c].start = 1
    /\ race.calls[c].cb = 1 /\ race.calls[c].polls = 1

\* C25: when two Logins for one start URL that found no valid cached token
\* have both returned, each after a device flow of its own, each has its own
\* token, the token cache file holds what the PutCachedToken that wrote last
\* wrote, and GetCachedToken returns that token.
C25_LastWriterWins ==
    (\A c \in Callers : OwnFlow(c)) =>
       LET f == files[GetSSOCacheFilePath(HomeURL)]
           tok == race.token[race.last]
       IN  /\ race.result[1].token # race.result[2].token
           /\ \A c \in Callers : race.result[c].token = race.token[c]
           /\ f = PutCachedTokenData(HomeURL, tok, Now)
           /\ GetCachedTokenData(f, Now).kind = "token"
           /\ GetCachedTokenData(f, Now).token.accessToken = tok.accessToken

\* ------------------------------------------------------------ the file path
\* the digest the test expects for https://test.awsapps.com/start
expectedHash ==
    <<"b", "f", "e", "9", "e", "3", "7", "c", "8", "5", "c", "c", "2",
     "9", "9", "e", "3", "4", "d", "8", "c", "0", "3", "b", "6", "3", "1",
     "6", "7", "2", "4", "8", "3", "f", "7", "8", "c", "d", "0", "1">>

Last(s) == s[Len(s)]

PutStep == cacheOps' = cacheOps + 1 /\ lastPut'.n = cacheOps'

\* the instant a written timestamp stands for, as a reader that takes it as
\* UTC gets it
ReadAsUTC(s) == s.wall - s.off

\* C32: every timestamp PutCachedToken writes is the UTC rendering, to the
\* second, of the instant it stands for: expiresAt of the token's expiry,
\* receivedAt of the instant of the write, registrationExpiresAt of that
\* instant plus ninety days; whatever zone the writer runs in.
C32_TimestampsInUTC ==
    [][PutStep =>
          LET f == files'[GetSSOCacheFilePath(lastPut'.url)]
          IN  /\ f.expiresAt.form = "Z"
              /\ ReadAsUTC(f.expiresAt) = TruncSecond(arg.expiresAt.t)
              /\ f.receivedAt.form = "Z"
              /\ ReadAsUTC(f.receivedAt) = TruncSecond(now)
              /\ arg.clientID # 0 =>
                    /\ f.registrationExpiresAt.form = "Z"
                    /\ ReadAsUTC(f.registrationExpiresAt) =
                          TruncSecond(now + registrationLifetime)]_vars

\* Login has returned the token of a device flow
DeviceFlowToken == pc = "done" /\ result.kind = "Token" /\ ~result.cached

\* C33: the token a successful device flow returns carries the access and
\* refresh token of the success response, an expiry of the time of success
\* plus the lifetime the response gave, the client id and secret of this
\* flow's RegisterClient, the time of success as registration time, and the
\* region and start URL of the Login request.
C33_TokenOfTheFlow ==
    DeviceFlowToken =>
        LET t == result.token
        IN  /\ t.accessToken = logins
            /\ t.refreshToken = RefreshToken(logins)
            /\ t.expiresAt = Time(result.at + obs.expiresIn, tz)
            /\ obs.expiresIn \in Lifetimes
            /\ obs.reg = 1
            /\ t.clientID = flow.clientID
            /\ t.clientID = logins
            /\ t.clientSecret = ClientSecret(flow.clientID)
            /\ t.registrationTime = Time(result.at, tz)
            /\ t.region = input.ssoRegion
            /\ t.startURL = input.startURL

\* the second Login, a forced refresh of a token cached by the first, has
\* returned the token of its own device flow
C33_Witness ==
    /\ DeviceFlowToken
    /\ logins = 2
    /\ input.prior.kind = "token"
    /\ input.prior.token.clientID = 1
    /\ result.at > input.at

\* the credential cache key of the provider GetAWSConfig returned, as Retrieve
\* computes it
ProviderKey(p) == generateCredentialCacheKey(p.startURL, p.accountID, p.roleName)

\* C34: formatAccountID returns exactly the decimal digits of its input in
\* order and is idempotent, so GetAWSConfig accepts every separator spelling
\* of a twelve-digit account id, gives its provider the twelve digits, and
\* the provider's credential cache key is the one of the plain spelling.
C34_AccountSpellings ==
    (op.name = "GetAWSConfig" /\ op.accountID \in Spellings) =>
        /\ op.valid
        /\ op.result.kind = "Config"
        /\ formatAccountID(formatAccountID(op.accountID))
             = formatAccountID(op.accountID)
        /\ \A id \in AccountIds, sep \in Separators, g \in Groupings :
              op.accountID = Spell(id, sep, g) =>
                 /\ formatAccountID(op.accountID) = id
                 /\ op.result.provider.accountID = id
                 /\ ProviderKey(op.result.provider)
                      = generateCredentialCacheKey(op.startURL, id,
                                                   op.result.provider.roleName)

\* GetAWSConfig has been called with 1234 5678 9012
C34_Witness ==
    /\ op.name = "GetAWSConfig"
    /\ op.accountID = Spell(AccountPlain, " ", <<4, 4, 4>>)
    /\ op.result.kind = "Config"
    /\ op.result.provider.accountID = AccountPlain

\* a Logout whose provider call failed returns in this step
LogoutAPIFailed == op' # op /\ op'.name = "Logout" /\ op'.apiErr

\* C35: when the provider's logout call fails, Logout goes on to delete the
\* token cache file and returns nil; it returns an error only when the
\* deletion fails, and the error is the deletion's.
C35_LogoutIgnoresAPIError ==
    [][LogoutAPIFailed =>
         LET path == GetSSOCacheFilePath(op'.startURL)
         IN  \/ /\ op'.result = NilResult
                /\ files'[path] = NoFile
             \/ /\ op'.result = ErrorResult("Remove", "DeleteCachedToken", "file")
                /\ files[path] # NoFile
                /\ files' = files]_vars

\* a Logout whose provider call failed has removed the file of a token and
\* returned nil
C35_Witness ==
    /\ op.name = "Logout"
    /\ op.apiErr
    /\ op.result = NilResult
    /\ op.file.json = "cli"
    /\ files[GetSSOCacheFilePath(op.startURL)] = NoFile

\* a step of a Login that has not returned, other than the return of a token:
\* the steps of a Login that fails are among them, its return too
LoginWithoutToken ==
    pc # "done" /\ ~(pc' = "done" /\ result'.kind = "Token")

\* C36: a Login that returns an error (refused input, a provider error, a
\* callback error, the timeout, a cancellation) leaves the token cache files
\* exactly as they were: no step of a Login other than the return of a token
\* changes a file, so a token cached before a failed login or a failed forced
\* refresh is still there.
C36_FailedLoginKeepsFile ==
    [][LoginWithoutToken => files' = files]_vars

\* a forced refresh of a cached token has failed at the provider's
\* CreateToken, and the file still holds the token of the first login
C36_Witness ==
    /\ pc = "done"
    /\ result.kind = "Wrapped"
    /\ obs.failed = "CreateToken"
    /\ input.forceRefresh
    /\ input.prior.kind = "token"
    /\ files[GetSSOCacheFilePath(input.startURL)].json = "cli"
    /\ files[GetSSOCacheFilePath(input.startURL)].accessToken
         = input.prior.token.accessToken

\* what GetCachedToken returns for the complete file of caller c's write
CompleteRead(c) ==
    GetCachedTokenData(PutCachedTokenData(HomeURL, race.token[c], Now), Now)

\* C37: a GetCachedToken made while PutCachedToken calls for the same start
\* URL are under way returns absent, an error, or the token of one complete
\* write; never a token with fields of two writes.
C37_NoTornRead ==
    race.reader.pc = "done" =>
        \/ race.reader.result = Absent
        \/ race.reader.result = ReadError
        \/ \E c \in Callers :
              /\ race.token[c] # NoArg
              /\ race.reader.result = CompleteRead(c)

\* this step is a Retrieve that returns, from the credential cache, the
\* credentials the Retrieve before it got from the provider
RetrieveReturnsCachedOfLast ==
    /\ op.name = "Retrieve"
    /\ op.exchanges = 1
    /\ op.result.kind = "creds"
    /\ op' # op
    /\ op'.name = "Retrieve"
    /\ op'.exchanges = 0
    /\ op'.result = op.result

\* C38: the credential cache key tells apart the triples (start URL, account
\* id, role name) that pass validation: a Retrieve that returns credentials
\* from a shared credential cache returns those of its own triple.
C38_KeyInjective ==
    [][RetrieveReturnsCachedOfLast =>
         /\ ValidateStartURL(op.startURL) /\ ValidateStartURL(op'.startURL)
         /\ ValidateAccountID(op.accountID) /\ ValidateAccountID(op'.accountID)
         /\ ValidateRoleName(op.roleName) /\ ValidateRoleName(op'.roleName)
         /\ op'.startURL = op.startURL
         /\ op'.accountID = op.accountID
         /\ op'.roleName = op.roleName]_vars

\* C39: whatever Interval StartDeviceAuthorization answered, 0 for an absent
\* field included, the flow that has called the callback goes on to poll or
\* to return; time.NewTicker does not panic.
C39_TimerNeverAborts ==
    (flow.interval \in Intervals /\ obs.cb = 1 /\ ~obs.cbErr) => pc # "panic"

\* two goroutines are in the map of the MemoryCache and one of them writes it
MapAccessedAtOnce ==
    \E c, d \in DOMAIN race.mem :
        /\ c # d
        /\ race.mem[c].pc = "in" /\ race.mem[d].pc = "in"
        /\ MapWrites(race.mem[c].name) \/ MapWrites(race.mem[d].name)

\* C40: Get, Put and Delete made at once on one MemoryCache never access its
\* map at the same time (with one of them writing), the runtime never ends
\* the process for it, and every Get returns absent or a value that a Put
\* stored under its key.
C40_MemoryCacheSerialised ==
    /\ ~MapAccessedAtOnce
    /\ ~race.fatal
    /\ \A c \in DOMAIN race.mem :
          (race.mem[c].pc = "done" /\ race.mem[c].name = "Get") =>
             \/ race.mem[c].result = Absent
             \/ /\ race.mem[c].result.kind = "data"
                /\ <<race.mem[c].key, race.mem[c].result.data>> \in race.puts

====
